---- MODULE Spec2Model ----
(***************************************************************************)
(* Virtual modem profiles of ha-tplink-router-card: the Deco X50 mock      *)
(* (RSA/AES framed login, cookie + stok routed commands), the BE230 router *)
(* mock (lenient stok routing) and the Omada controller mock (token login, *)
(* site scoped REST handlers).                                             *)
(*                                                                         *)
(* Text model.  A Python str/bytes value is a sequence of fragments, each  *)
(* fragment a TLA+ string.  Tokens are spelled one character per fragment  *)
(* (so that prefixes, truncations and single character replacements are    *)
(* expressible); fixed literals of the source ("/cgi-bin/luci/;stok=",     *)
(* "admin/device", a JSON document) are one fragment each.                 *)
(*                                                                         *)
(* Library model.  secrets.token_hex is an ideal source of fresh values    *)
(* (the n-th draw differs from every earlier draw); AES-CBC and RSA        *)
(* PKCS#1 v1.5 are ideal ciphers (a ciphertext opens only under the key it *)
(* was made with); json.loads is a table over the documents that occur.    *)
(***************************************************************************)
EXTENDS Integers, Sequences, FiniteSets, TLC

VARIABLES
    rng,            \* number of values drawn from secrets so far
    sessions,       \* TplinkDecoX50Mock.sessions: sysauth -> DecoSession
    wireless,       \* TplinkDecoX50Mock.fixture["wireless"]: band -> group -> record
    client_runtime, \* TplinkDecoX50Mock._client_runtime: mac -> runtime record
    decoReads,      \* client-list reads served so far (bounds the model)
    be_rng,         \* BE230: number of values drawn from secrets so far
    be_stok,        \* TplinkRouterBe230Mock.stok
    be_known_stoks, \* TplinkRouterBe230Mock._known_stoks
    be_sysauth,     \* TplinkRouterBe230Mock.sysauth
    be_status,      \* TplinkRouterBe230Mock.fixture["status"]: key -> value
    om_rng,         \* Omada: number of values drawn from secrets so far
    om_tokens,      \* OmadaControllerMock.tokens
    om_clients,     \* OmadaControllerMock.clients
    om_known_clients, \* OmadaControllerMock.known_clients
    om_devices,     \* OmadaControllerMock.devices
    om_gateway_details, \* OmadaControllerMock.gateway_details
    om_switch_details,  \* OmadaControllerMock.switch_details
    om_ap_details,  \* OmadaControllerMock.ap_details
    om_switch_ports, \* OmadaControllerMock.switch_ports
    om_writes,      \* Omada: number of requests that changed a record so far
    lock_file,      \* run.py: the content of active_modem.json
    lock_pc,        \* run.py: where each process is in main and _acquire_modem_lock
    lock_existing,  \* run.py: the local variable existing (payload in _cleanup)
    conc_pc,        \* in-flight requests: where each handler is
    conc_req,       \* in-flight requests: the request of each handler
    conc_seen,      \* in-flight requests: the shared state when the request arrived
    conc_resp,      \* in-flight requests: the response of each handler
    conc_start      \* the shared state before any in-flight request

decoVars == <<rng, sessions, wireless, client_runtime, decoReads>>

beVars == <<be_rng, be_stok, be_known_stoks, be_sysauth, be_status>>

omVars == <<om_rng, om_tokens, om_clients, om_known_clients, om_devices,
            om_gateway_details, om_switch_details, om_ap_details, om_switch_ports,
            om_writes>>

lockVars == <<lock_file, lock_pc, lock_existing>>

concVars == <<conc_pc, conc_req, conc_seen, conc_resp, conc_start>>

vars == <<rng, sessions, wireless, client_runtime, decoReads,
          be_rng, be_stok, be_known_stoks, be_sysauth, be_status,
          om_rng, om_tokens, om_clients, om_known_clients, om_devices,
          om_gateway_details, om_switch_details, om_ap_details, om_switch_ports,
          om_writes, lock_file, lock_pc, lock_existing,
          conc_pc, conc_req, conc_seen, conc_resp, conc_start>>

----------------------------------------------------------------------------
(* Bounds of the model *)

MaxLogins == 2      \* successful logins per profile instance
MaxReads == 2       \* Deco client-list reads
MaxWrites == 1      \* Omada requests that change a record
NumProcesses == 3   \* processes that run main
NumInFlight == 2    \* requests in flight at the same time

----------------------------------------------------------------------------
(* Strings *)

HexDigits == <<"0","1","2","3","4","5","6","7","8","9","a","b","c","d","e","f">>

HexChars == {HexDigits[i] : i \in 1..16}

\* format(b, "02x")
HexByte(b) == <<HexDigits[(b \div 16) + 1], HexDigits[(b % 16) + 1]>>

\* bytes.hex(): two digits per byte
HexOf(bytes) ==
    [j \in 1..(2 * Len(bytes)) |-> HexByte(bytes[(j + 1) \div 2])[2 - (j % 2)]]

StartsWithLength(s, p) == Len(p) <= Len(s)

\* str.startswith
StartsWith(s, p) == Len(p) <= Len(s) /\ SubSeq(s, 1, Len(p)) = p

\* str.replace(p, ""): every non-overlapping occurrence of p removed, left to right
RECURSIVE RemoveAll(_, _)
RemoveAll(s, p) ==
    IF s = <<>> \/ p = <<>> THEN s
    ELSE IF StartsWith(s, p) THEN RemoveAll(SubSeq(s, Len(p) + 1, Len(s)), p)
    ELSE <<Head(s)>> \o RemoveAll(Tail(s), p)

Least(S) == CHOOSE x \in S : \A y \in S : x <= y

\* the longest prefix of s whose fragments all lie in the class cls
TakeWhile(s, cls) ==
    LET stop == {i \in 1..Len(s) : s[i] \notin cls}
    IN IF stop = {} THEN s ELSE SubSeq(s, 1, Least(stop) - 1)

----------------------------------------------------------------------------
(* secrets.token_hex *)

\* the i-th byte of the r-th draw (r >= 1): two draws differ in every byte
EntropyByte(r, i) == (r * 37 + i * 101 + 11) % 256

\* secrets.token_hex(nbytes), the r-th draw
TokenHex(nbytes, r) == HexOf([i \in 1..nbytes |-> EntropyByte(r, i)])

----------------------------------------------------------------------------
(* shared/rsa_session.py: AesCbcContext *)

AesBlockSize == 16

\* the byte of value n < 32 as a fragment; every other fragment ends in a
\* printable character, whose byte value is above the block size
CtlFrag(n) == "\\x" \o ToString(n)

LastByte(s) ==
    IF \E n \in 0..31 : s[Len(s)] = CtlFrag(n)
    THEN CHOOSE n \in 0..31 : s[Len(s)] = CtlFrag(n)
    ELSE 125

\* a fragment that is no valid UTF-8
BadUtf8 == "\\xff"

\* keys and IVs AES.new accepts (16 ASCII characters each, one fragment here);
\* any other key or IV text makes AES.new raise ValueError
AesKeys == {<<"K1">>, <<"K2">>}

AesIvs == {<<"V1">>, <<"V2">>}

AesNewOk(aes) == aes.key \in AesKeys /\ aes.iv \in AesIvs

\* AesCbcContext.from_ascii
FromAscii(key, iv) == [key |-> key, iv |-> iv]

NoAes == [key |-> <<>>, iv |-> <<>>]

\* a base64 body: absent (field missing), empty, nonb64 (b64decode raises),
\* badlen (not a whole number of blocks) or ct (the CBC encryption of the
\* padded plaintext pt under key/iv)
NoData == [kind |-> "absent", key |-> <<>>, iv |-> <<>>, pt |-> <<>>]

Ciphertext(key, iv, padded) == [kind |-> "ct", key |-> key, iv |-> iv, pt |-> padded]

Raised == [ok |-> FALSE, text |-> <<>>]

Returned(text) == [ok |-> TRUE, text |-> text]

EncryptB64NoFullBlock(aes, plaintext) ==
    LET pad_len == (AesBlockSize - (Len(plaintext) % AesBlockSize)) % AesBlockSize
        padded == plaintext \o [i \in 1..pad_len |-> CtlFrag(pad_len)]
    IN Ciphertext(aes.key, aes.iv, padded)

\* AesCbcContext.encrypt_b64
EncryptB64(aes, plaintext) ==
    LET pad_len == AesBlockSize - (Len(plaintext) % AesBlockSize)
        padded == plaintext \o [i \in 1..pad_len |-> CtlFrag(pad_len)]
    IN Ciphertext(aes.key, aes.iv, padded)

\* AesCbcContext.decrypt_b64; Raised stands for any exception it lets out
DecryptB64(aes, encrypted) ==
    IF encrypted.kind # "ct" \/ ~AesNewOk(aes) THEN Raised
    ELSE IF encrypted.key # aes.key \/ encrypted.iv # aes.iv THEN Raised
    ELSE IF encrypted.pt = <<>> THEN Raised
    ELSE LET decrypted == encrypted.pt
             pad_len == LastByte(decrypted)
         IN IF pad_len < 1 \/ pad_len > AesBlockSize THEN Raised
            ELSE LET body == SubSeq(decrypted, 1, Len(decrypted) - pad_len)
                 IN IF \E i \in 1..Len(body) : body[i] = BadUtf8 THEN Raised
                    ELSE Returned(body)

----------------------------------------------------------------------------
(* json.loads over the request documents of the model *)

DocLogin == <<"{\"operation\":\"login\"}">>

DocRead == <<"{\"operation\":\"read\"}">>

DocEmptyObject == <<"{}">>

DocArray == <<"[]">>

DocNotJson == <<"not json">>

\* a wireless write for one band/group: {"operation":"write","params":{band:{group:{"enable":v}}}}
DocWrite(band, group, v) ==
    <<"{\"operation\":\"write\",\"params\":{\"", band, "\":{\"", group,
      "\":{\"enable\":", v, "}}}}">>

\* {"operation":"write","params":[]}
DocWriteParamsArray == <<"{\"operation\":\"write\",\"params\":[]}">>

\* {"operation":"write","params":{band:1}}
DocWriteBandScalar(band) == <<"{\"operation\":\"write\",\"params\":{\"", band, "\":1}}">>

\* {"operation":"write","params":{band:{group:{}}}}
DocWriteNoEnable(band, group) ==
    <<"{\"operation\":\"write\",\"params\":{\"", band, "\":{\"", group, "\":{}}}}">>

JsonTruthy == {"true", "1", "\"on\""}

JsonFalsy == {"false", "0", "null", "\"\""}

NoParams == [isdict |-> TRUE, items |-> <<>>]

JsonError == [ok |-> FALSE, isdict |-> FALSE, operation |-> "", params |-> NoParams]

JsonObject(operation, params) ==
    [ok |-> TRUE, isdict |-> TRUE, operation |-> operation, params |-> params]

\* one entry of params: value is kind "dict" (with its groups) or "scalar"
BandItem(band, isdict, groups) == [band |-> band, isdict |-> isdict, groups |-> groups]

GroupItem(group, isdict, has_enable, enable) ==
    [group |-> group, isdict |-> isdict, has_enable |-> has_enable, enable |-> enable]

\* json.loads: the parsed value, or JsonError for JSONDecodeError.  operation ""
\* stands for a missing "operation" key (payload.get returns None).
JsonLoads(text) ==
    IF text = DocLogin THEN JsonObject("login", NoParams)
    ELSE IF text = DocRead THEN JsonObject("read", NoParams)
    ELSE IF text = DocEmptyObject THEN JsonObject("", NoParams)
    ELSE IF text = DocArray
        THEN [ok |-> TRUE, isdict |-> FALSE, operation |-> "", params |-> NoParams]
    ELSE IF text = DocWriteParamsArray
        THEN JsonObject("write", [isdict |-> FALSE, items |-> <<>>])
    ELSE IF Len(text) = 3 /\ text = DocWriteBandScalar(text[2])
        THEN JsonObject("write",
                 [isdict |-> TRUE, items |-> <<BandItem(text[2], FALSE, <<>>)>>])
    ELSE IF Len(text) = 5 /\ text = DocWriteNoEnable(text[2], text[4])
        THEN JsonObject("write",
                 [isdict |-> TRUE,
                  items |-> <<BandItem(text[2], TRUE,
                                <<GroupItem(text[4], TRUE, FALSE, FALSE)>>)>>])
    ELSE IF Len(text) = 7 /\ text = DocWrite(text[2], text[4], text[6])
            /\ text[6] \in JsonTruthy \cup JsonFalsy
        THEN JsonObject("write",
                 [isdict |-> TRUE,
                  items |-> <<BandItem(text[2], TRUE,
                                <<GroupItem(text[4], TRUE, TRUE, text[6] \in JsonTruthy)>>)>>])
    ELSE JsonError

----------------------------------------------------------------------------
(* shared/rsa_session.py: RsaKeyPair.decrypt_sign_chunks, parse_sign_payload *)

NulFrag == CtlFrag(0)

\* fragments matching [a-zA-Z0-9_]+ among those the sign texts are built of
WordFrags == {"k", "i", "x", "K1", "K2", "V1", "V2", "Kbad"}

\* the longest prefix of s with no fragment in stop
RECURSIVE TakeUntil(_, _)
TakeUntil(s, stop) ==
    IF s = <<>> \/ Head(s) \in stop THEN <<>>
    ELSE <<Head(s)>> \o TakeUntil(Tail(s), stop)

\* str.rstrip("\x00")
RECURSIVE RStripNul(_)
RStripNul(s) ==
    IF s # <<>> /\ s[Len(s)] = NulFrag THEN RStripNul(SubSeq(s, 1, Len(s) - 1)) ELSE s

\* bytes.decode("utf-8", errors="ignore")
RECURSIVE DecodeIgnore(_)
DecodeIgnore(s) ==
    IF s = <<>> THEN <<>>
    ELSE (IF Head(s) = BadUtf8 THEN <<>> ELSE <<Head(s)>>) \o DecodeIgnore(Tail(s))

\* A sign value: absent (no such form field), empty, or hex: the chunks that
\* slicing by the key's block length gives.  A chunk is ok (the PKCS#1 v1.5
\* encryption of text under the instance's key), garbled (a full block that
\* is no such encryption: the sentinel b"" comes back), short (cipher.decrypt
\* raises: incorrect length) or nonhex (bytes.fromhex raises).
NoSign == [kind |-> "absent", chunks |-> <<>>]

SignChunk(kind, text) == [kind |-> kind, text |-> text]

SignOf(chunks) == [kind |-> "hex", chunks |-> chunks]

RECURSIVE JoinChunks(_)
JoinChunks(chunks) ==
    IF chunks = <<>> THEN <<>>
    ELSE (IF Head(chunks).kind = "ok" THEN DecodeIgnore(Head(chunks).text) ELSE <<>>)
         \o JoinChunks(Tail(chunks))

RECURSIVE JoinChunksStripped(_)
JoinChunksStripped(chunks) ==
    IF chunks = <<>> THEN <<>>
    ELSE (IF Head(chunks).kind = "ok" THEN RStripNul(DecodeIgnore(Head(chunks).text))
          ELSE <<>>)
         \o JoinChunksStripped(Tail(chunks))

DecryptSignChunksStripEach(sign) ==
    IF \E j \in 1..Len(sign.chunks) : sign.chunks[j].kind \in {"short", "nonhex"}
    THEN Raised
    ELSE Returned(JoinChunksStripped(sign.chunks))

\* what the client sends as sign for text: the text cut into pieces of at
\* most piece fragments, each encrypted to one block of the key's length
RECURSIVE EncryptSignChunks(_, _)
EncryptSignChunks(text, piece) ==
    IF text = <<>> THEN <<>>
    ELSE IF Len(text) <= piece THEN <<SignChunk("ok", text)>>
    ELSE <<SignChunk("ok", SubSeq(text, 1, piece))>>
         \o EncryptSignChunks(SubSeq(text, piece + 1, Len(text)), piece)

\* RsaKeyPair.decrypt_sign_chunks
DecryptSignChunks(sign) ==
    IF \E j \in 1..Len(sign.chunks) : sign.chunks[j].kind \in {"short", "nonhex"}
    THEN Raised
    ELSE Returned(RStripNul(JoinChunks(sign.chunks)))

\* re.findall(r"([a-zA-Z0-9_]+)=([^&]+)", text), as the list of matches
RECURSIVE FindKv(_)
FindKv(text) ==
    IF text = <<>> THEN <<>>
    ELSE LET key == TakeWhile(text, WordFrags)
             rest == SubSeq(text, Len(key) + 1, Len(text))
             value == IF rest = <<>> THEN <<>> ELSE TakeUntil(Tail(rest), {"&"})
         IN IF key # <<>> /\ rest # <<>> /\ Head(rest) = "=" /\ value # <<>>
            THEN <<[key |-> key, value |-> value]>>
                 \o FindKv(SubSeq(rest, Len(value) + 2, Len(rest)))
            ELSE FindKv(Tail(text))

\* TplinkDecoX50Mock._extract_kv(text).get(name): the value of the last match
\* whose key is name, <<>> when there is none (None)
ExtractKvGet(text, name) ==
    LET kvs == FindKv(text)
        hits == {j \in 1..Len(kvs) : kvs[j].key = <<name>>}
    IN IF hits = {} THEN <<>>
       ELSE kvs[CHOOSE j \in hits : \A h \in hits : h <= j].value

----------------------------------------------------------------------------
(* profiles/tplink_deco_x50.py: sessions *)

LuciPrefix == "/cgi-bin/luci/;stok="

\* f"/cgi-bin/luci/;stok={stok}/"
StokPrefix(stok) == <<LuciPrefix>> \o stok \o <<"/">>

\* the request path for a state token and an endpoint
PathOf(stok, endpoint) == StokPrefix(stok) \o endpoint

LoginPath == PathOf(<<>>, <<"login">>)

DecoSession(sysauth, stok, aes) == [sysauth |-> sysauth, stok |-> stok, aes |-> aes]

NoSession == DecoSession(<<>>, <<>>, NoAes)

\* the response of one request: HTTP status, the JSON body's error_code and
\* msg, its encrypted data (NoData when the body has none), the token of the
\* set-cookie header (<<>> when there is none) and the branch that returned;
\* detail is the part of msg that echoes the request
Response(status, error_code, msg, data, cookie, by) ==
    [status |-> status, error_code |-> error_code, msg |-> msg, detail |-> <<>>,
     data |-> data, cookie |-> cookie, by |-> by]

\* an exception that leaves post_any: the server answers 500
ServerError(by) == Response(500, 500, "Internal Server Error", NoData, <<>>, by)

\* json.dumps({"error_code": 0, "result": {"stok": stok}}, separators=(",", ":"))
LoginResultJson(stok) == <<"{\"error_code\":0,\"result\":{\"stok\":\"">> \o stok \o <<"\"}}">>

MintStokRepeated(r) == <<"deco-">> \o TokenHex(8, 0)

\* the stok handle_login mints from the r-th draw
MintStok(r) == <<"deco-">> \o TokenHex(8, r)

MintSysauthShort(r) == TokenHex(8, r)

\* the sysauth handle_login mints from the r-th draw
MintSysauth(r) == TokenHex(16, r)

\* what handle_login returns: the response and the session it has stored
\* (NoSession when it stored none)
LoginRefused(error_code, msg) ==
    [resp |-> Response(400, error_code, msg, NoData, <<>>, "login"), session |-> NoSession]

\* handle_login, the last step: mint the session, store it, answer
LoginAccepted(aes, sysauth, stok) ==
    [resp |-> Response(200, 0, "", EncryptB64(aes, LoginResultJson(stok)), sysauth, "login"),
     session |-> DecoSession(sysauth, stok, aes)]

\* handle_login from the parsed payload on; payload.get on a JSON value that
\* is no object raises AttributeError
LoginPayload(aes, payload, r1, r2) ==
    IF ~payload.ok THEN LoginRefused(-3, "invalid encrypted payload")
    ELSE IF ~payload.isdict THEN [resp |-> ServerError("login"), session |-> NoSession]
    ELSE IF payload.operation # "login" THEN LoginRefused(-4, "invalid operation")
    ELSE LoginAccepted(aes, MintSysauth(r1), MintStok(r2))

\* json.loads(aes.decrypt_b64(data)) inside the try block
LoginDecrypted(aes, raw, r1, r2) ==
    LoginPayload(aes, IF raw.ok THEN JsonLoads(raw.text) ELSE JsonError, r1, r2)

\* handle_login from the key and the IV of the sign on
LoginKeyed(key, iv, data, r1, r2) ==
    IF key = <<>> \/ iv = <<>> THEN LoginRefused(-2, "invalid sign")
    ELSE LoginDecrypted(FromAscii(key, iv), DecryptB64(FromAscii(key, iv), data), r1, r2)

\* handle_login from the decrypted sign on
LoginSigned(signed, data, r1, r2) ==
    IF ~signed.ok THEN LoginRefused(-2, "invalid sign payload")
    ELSE LoginKeyed(ExtractKvGet(signed.text, "k"), ExtractKvGet(signed.text, "i"),
                    data, r1, r2)

\* TplinkDecoX50Mock.handle_login; r1, r2 are the draws of sysauth and stok
HandleLogin(sign, data, r1, r2) ==
    IF sign.kind \in {"absent", "empty"} \/ data.kind \in {"absent", "empty"}
    THEN LoginRefused(-1, "missing sign/data")
    ELSE LoginSigned(DecryptSignChunks(sign), data, r1, r2)

\* re.search(r"sysauth=([a-f0-9]+)", cookie): group 1 of the first match, <<>>
\* when nothing matches
SearchSysauth(cookie) ==
    LET starts == {i \in 1..(Len(cookie) - 1) :
                      cookie[i] = "sysauth=" /\ cookie[i + 1] \in HexChars}
    IN IF starts = {} THEN <<>>
       ELSE TakeWhile(SubSeq(cookie, Least(starts) + 1, Len(cookie)), HexChars)

SessionFromRequestAny(registry, cookie) ==
    IF DOMAIN registry = {} THEN NoSession
    ELSE registry[CHOOSE token \in DOMAIN registry : TRUE]

\* TplinkDecoX50Mock._session_from_request
SessionFromRequest(registry, cookie) ==
    LET token == SearchSysauth(cookie)
    IN IF token # <<>> /\ token \in DOMAIN registry THEN registry[token] ELSE NoSession

----------------------------------------------------------------------------
(* profiles/tplink_deco_x50.py: fixture and per-client runtime *)

\* fixture["wireless"] of data/tplink_deco_x50.json: band -> group -> record;
\* of a group record the model keeps its key set and its enable flag
WirelessGroup(enable) == [keys |-> {"enable", "ssid"}, enable |-> enable]

WirelessBaseline ==
    [band2_4 |-> [host |-> WirelessGroup(TRUE), guest |-> WirelessGroup(FALSE)],
     band5 |-> [host |-> WirelessGroup(TRUE)]]

\* _clients_catalog: the fixture's clients followed by the generated ones
\* (one of each here); seed 0 stands for a missing down/up_kilobytes_per_s
DecoCatalog ==
    <<[mac |-> "0A-DE-50-00-00-01", online |-> TRUE, wire_type |-> "wired",
       connection_type |-> "wired", interface |-> "main",
       seed_down |-> 9000, seed_up |-> 5000],
      [mac |-> "0A-DE-50-00-44-01", online |-> FALSE, wire_type |-> "wireless",
       connection_type |-> "band5", interface |-> "guest",
       seed_down |-> 0, seed_up |-> 0]>>

DecoMacs == {DecoCatalog[j].mac : j \in 1..Len(DecoCatalog)}

\* TplinkDecoX50Mock._profile_for_client
ProfileForClient(client) ==
    IF client.wire_type = "wired" THEN "wired"
    ELSE IF client.interface = "guest" THEN "guest"
    ELSE IF client.interface = "iot" THEN "iot"
    ELSE IF client.connection_type = "band6" THEN "wifi6"
    ELSE IF client.connection_type = "band5" THEN "wifi5"
    ELSE "wifi24"

\* TplinkDecoX50Mock._rate_bounds
RateBounds(profile) ==
    IF profile = "wired"
    THEN [down_min |-> 6000, down_max |-> 120000, up_min |-> 4000, up_max |-> 95000]
    ELSE IF profile = "wifi6"
    THEN [down_min |-> 2000, down_max |-> 95000, up_min |-> 1200, up_max |-> 62000]
    ELSE IF profile = "wifi5"
    THEN [down_min |-> 400, down_max |-> 65000, up_min |-> 220, up_max |-> 42000]
    ELSE IF profile = "iot"
    THEN [down_min |-> 5, down_max |-> 1400, up_min |-> 3, up_max |-> 800]
    ELSE IF profile = "guest"
    THEN [down_min |-> 60, down_max |-> 19000, up_min |-> 35, up_max |-> 11500]
    ELSE [down_min |-> 30, down_max |-> 7500, up_min |-> 18, up_max |-> 4000]

\* disconnect_prob and reconnect_prob of _next_online_state, in thousandths
DisconnectProb(profile) ==
    IF profile = "wired" THEN 4 ELSE IF profile = "wifi6" THEN 15
    ELSE IF profile = "wifi5" THEN 20 ELSE IF profile = "wifi24" THEN 25
    ELSE IF profile = "iot" THEN 10 ELSE IF profile = "guest" THEN 30 ELSE 20

ReconnectProb(profile) ==
    IF profile = "wired" THEN 350 ELSE IF profile = "wifi6" THEN 280
    ELSE IF profile = "wifi5" THEN 250 ELSE IF profile = "wifi24" THEN 220
    ELSE IF profile = "iot" THEN 180 ELSE IF profile = "guest" THEN 240 ELSE 220

\* TplinkDecoX50Mock._next_online_state; u is self._rand.random() in thousandths
NextOnlineState(profile, current_online, u) ==
    IF current_online THEN u >= DisconnectProb(profile) ELSE u < ReconnectProb(profile)

Min(a, b) == IF a <= b THEN a ELSE b

Max(a, b) == IF a >= b THEN a ELSE b

\* self._rand.randint(lo, hi), the draw p in thousandths of the range
RandInt(lo, hi, p) == lo + ((hi - lo) * p) \div 1000

NextRateUnclamped(current, min_value, max_value, d) ==
    IF current <= 0 THEN RandInt(min_value, max_value, d.p) ELSE (current * d.h) \div 100

\* TplinkDecoX50Mock._next_rate; d.p is the randint draw, d.h the uniform(0.72, 1.33)
\* factor in hundredths
NextRate(current, min_value, max_value, d) ==
    IF current <= 0 THEN RandInt(min_value, max_value, d.p)
    ELSE Max(min_value, Min(max_value, (current * d.h) \div 100))

\* one client's random draws of a client-list read: the online draw, then the
\* draws of the down rate and of the up rate
ClientDraw(u, down, up) == [u |-> u, down |-> down, up |-> up]

RateDraw(p, h) == [p |-> p, h |-> h]

\* TplinkDecoX50Mock._build_client_runtime for one client; d gives the seed
\* draws, traffic counters start at the lower ends of their randint ranges
BuildClientRuntime(client, d) ==
    LET profile == ProfileForClient(client)
        b == RateBounds(profile)
    IN [profile |-> profile,
        online |-> client.online,
        down_kb |-> IF client.seed_down <= 0 THEN RandInt(b.down_min, b.down_max, d.down.p)
                    ELSE client.seed_down,
        up_kb |-> IF client.seed_up <= 0 THEN RandInt(b.up_min, b.up_max, d.up.p)
                  ELSE client.seed_up,
        traffic_down |-> 250000000,
        traffic_up |-> 180000000]

TickClientRestarting(runtime, d, delta) ==
    LET b == RateBounds(runtime.profile)
        is_online == NextOnlineState(runtime.profile, runtime.online, d.u)
        down_kb == IF is_online
                   THEN NextRate(runtime.down_kb, b.down_min, b.down_max, d.down) ELSE 0
        up_kb == IF is_online
                 THEN NextRate(runtime.up_kb, b.up_min, b.up_max, d.up) ELSE 0
    IN [profile |-> runtime.profile,
        online |-> is_online,
        down_kb |-> down_kb,
        up_kb |-> up_kb,
        traffic_down |-> IF is_online THEN runtime.traffic_down + down_kb * 100 * delta ELSE 0,
        traffic_up |-> IF is_online THEN runtime.traffic_up + up_kb * 100 * delta ELSE 0]

\* one iteration of the loop of _client_list: the client's runtime after it;
\* delta is delta_seconds in tenths of a second, so that
\* int(kb * 1_000 * delta_seconds) is kb * 100 * delta
TickClient(runtime, d, delta) ==
    LET b == RateBounds(runtime.profile)
        is_online == NextOnlineState(runtime.profile, runtime.online, d.u)
        down_kb == IF is_online
                   THEN NextRate(runtime.down_kb, b.down_min, b.down_max, d.down) ELSE 0
        up_kb == IF is_online
                 THEN NextRate(runtime.up_kb, b.up_min, b.up_max, d.up) ELSE 0
    IN [profile |-> runtime.profile,
        online |-> is_online,
        down_kb |-> down_kb,
        up_kb |-> up_kb,
        traffic_down |-> runtime.traffic_down + down_kb * 100 * delta,
        traffic_up |-> runtime.traffic_up + up_kb * 100 * delta]

DeltaSecondsUnclamped(elapsed) == elapsed

\* delta_seconds = max(0.3, min(4.0, now - self._last_client_tick)), in tenths;
\* elapsed is now - self._last_client_tick, which the clock alone decides
DeltaSeconds(elapsed) == Max(3, Min(40, elapsed))

\* TplinkDecoX50Mock._client_list: the runtime table after the read
ClientListRuntime(runtime, draws, elapsed) ==
    [mac \in DOMAIN runtime |-> TickClient(runtime[mac], draws[mac], DeltaSeconds(elapsed))]

BoolJson(b) == IF b THEN "true" ELSE "false"

\* the entries of the client_list result, serialised
RECURSIVE ClientListJson(_, _)
ClientListJson(catalog, runtime) ==
    IF catalog = <<>> THEN <<>>
    ELSE LET rt == runtime[Head(catalog).mac]
         IN <<"{\"mac\":\"", Head(catalog).mac, "\",\"online\":", BoolJson(rt.online),
              ",\"down_speed\":", ToString(rt.down_kb),
              ",\"up_speed\":", ToString(rt.up_kb),
              ",\"traffic_down\":", ToString(rt.traffic_down),
              ",\"traffic_up\":", ToString(rt.traffic_up), "}">>
            \o ClientListJson(Tail(catalog), runtime)

\* fixture["wireless"], serialised
WirelessJson(w) ==
    <<"{\"band2_4\":{\"host\":{\"enable\":", BoolJson(w.band2_4.host.enable),
      "},\"guest\":{\"enable\":", BoolJson(w.band2_4.guest.enable),
      "}},\"band5\":{\"host\":{\"enable\":", BoolJson(w.band5.host.enable), "}}}">>

\* the loop over one band's groups of the wlan write: the band record after it
RECURSIVE WriteGroups(_, _)
WriteGroups(band_record, groups) ==
    IF groups = <<>> THEN band_record
    ELSE LET g == Head(groups)
             next == IF g.group \in DOMAIN band_record /\ g.isdict /\ g.has_enable
                     THEN [band_record EXCEPT ![g.group] =
                              [keys |-> @.keys \cup {"enable"}, enable |-> g.enable]]
                     ELSE band_record
         IN WriteGroups(next, Tail(groups))

\* the loop over params.items() of the wlan write: fixture["wireless"] after it
RECURSIVE WriteWireless(_, _)
WriteWireless(w, items) ==
    IF items = <<>> THEN w
    ELSE LET it == Head(items)
             next == IF it.band \in DOMAIN w /\ it.isdict
                     THEN [w EXCEPT ![it.band] = WriteGroups(@, it.groups)]
                     ELSE w
         IN WriteWireless(next, Tail(items))

----------------------------------------------------------------------------
(* profiles/tplink_deco_x50.py: create_app.post_any *)

\* a POST request: path, the first form= value of the query ("" when there is
\* none), the cookie header (<<>> when absent), and the sign and data fields
\* of the form body
Request(path, form, cookie, sign, data) ==
    [path |-> path, form |-> form, cookie |-> cookie, sign |-> sign, data |-> data]

DecoState(s, w, c) == [sessions |-> s, wireless |-> w, client_runtime |-> c]

Outcome(resp, state) == [resp |-> resp, state |-> state]

\* TplinkDecoX50Mock._read_request_payload; JsonError stands for an exception
ReadRequestPayload(session, data) ==
    IF data.kind \in {"absent", "empty"} THEN JsonObject("", NoParams)
    ELSE LET raw == DecryptB64(session.aes, data)
         IN IF raw.ok THEN JsonLoads(raw.text) ELSE JsonError

\* TplinkDecoX50Mock._json_encrypted
JsonEncrypted(session, text, by) ==
    Response(200, 0, "", EncryptB64(session.aes, text), <<>>, by)

\* the (endpoint, form) table of post_any
CommandOf(endpoint, form) ==
    IF endpoint = <<"admin/device">> /\ form = "device_list" THEN "device_list"
    ELSE IF endpoint = <<"admin/network">> /\ form = "wan_ipv4" THEN "wan_ipv4"
    ELSE IF endpoint = <<"admin/network">> /\ form = "performance" THEN "performance"
    ELSE IF endpoint = <<"admin/wireless">> /\ form = "wlan" THEN "wlan"
    ELSE IF endpoint = <<"admin/client">> /\ form = "client_list" THEN "client_list"
    ELSE IF endpoint = <<"admin/device">> /\ form = "system" THEN "system"
    ELSE IF endpoint = <<"admin/system">> /\ form = "logout" THEN "logout"
    ELSE "unsupported"

\* the branch of post_any that answers a request outside the login forms
CommandBranch(session, req) ==
    IF session = NoSession THEN "unauthorized"
    ELSE IF ~StartsWith(req.path, StokPrefix(session.stok)) THEN "bad_stok"
    ELSE IF ~ReadRequestPayload(session, req.data).ok THEN "payload_error"
    ELSE CommandOf(RemoveAll(req.path, StokPrefix(session.stok)), req.form)

\* the branch of post_any that answers req, in the order the code tests them
DecoBranch(registry, req) ==
    IF req.path = LoginPath /\ req.form \in {"keys", "auth", "login"} THEN req.form
    ELSE CommandBranch(SessionFromRequest(registry, req.cookie), req)

\* TplinkDecoX50Mock._runtime_performance: cpu_usage and mem_usage, the uniform
\* factors in hundredths
PerformanceJson(cpu_h, mem_h) ==
    <<"{\"error_code\":0,\"result\":{\"cpu_usage\":",
      ToString(Max(2, Min(95, (12 * cpu_h) \div 100))),
      ",\"mem_usage\":", ToString(Max(5, Min(95, (24 * mem_h) \div 100))), "}}">>

\* the environment's part of one request: the two fresh draws of secrets, the
\* per-client draws and the elapsed time of a client-list read (tenths of a
\* second), the factors of a performance read
Inputs(r1, r2, draws, elapsed, cpu_h, mem_h) ==
    [r1 |-> r1, r2 |-> r2, draws |-> draws, elapsed |-> elapsed,
     cpu_h |-> cpu_h, mem_h |-> mem_h]

\* post_any, form=login: handle_login stores the session it mints
LoginOutcome(S, out) ==
    Outcome(out.resp,
        IF out.session = NoSession THEN S
        ELSE [S EXCEPT !.sessions = (out.session.sysauth :> out.session) @@ S.sessions])

\* post_any, admin/wireless form=wlan: a write merges params into the fixture
WlanWritten(S, session, w) ==
    Outcome(JsonEncrypted(session,
                <<"{\"error_code\":0,\"result\":">> \o WirelessJson(w) \o <<"}">>, "wlan"),
            [S EXCEPT !.wireless = w])

WlanOutcome(S, session, payload) ==
    IF ~payload.isdict THEN Outcome(ServerError("wlan"), S)
    ELSE IF payload.operation # "write" THEN WlanWritten(S, session, S.wireless)
    ELSE IF ~payload.params.isdict THEN Outcome(ServerError("wlan"), S)
    ELSE WlanWritten(S, session, WriteWireless(S.wireless, payload.params.items))

\* post_any, admin/client form=client_list: _client_list advances the runtime
ClientListOutcome(S, session, rt) ==
    Outcome(JsonEncrypted(session,
                <<"{\"error_code\":0,\"result\":{\"client_list\":[">>
                \o ClientListJson(DecoCatalog, rt) \o <<"]}}">>, "client_list"),
            [S EXCEPT !.client_runtime = rt])

LogoutEvicts(S, session) ==
    Outcome(JsonEncrypted(session,
                <<"{\"error_code\":0,\"result\":{\"logout\":true}}">>, "logout"),
            [S EXCEPT !.sessions =
                [token \in DOMAIN S.sessions \ {session.sysauth} |-> S.sessions[token]]])

LogoutDisconnecting(S, session) ==
    Outcome(JsonEncrypted(session,
                <<"{\"error_code\":0,\"result\":{\"logout\":true}}">>, "logout"),
            [S EXCEPT !.client_runtime =
                [mac \in DOMAIN S.client_runtime |->
                    [S.client_runtime[mac] EXCEPT !.online = FALSE, !.down_kb = 0,
                                                  !.up_kb = 0]]])

\* post_any, admin/system form=logout: the session stays in the registry
LogoutOutcome(S, session) ==
    Outcome(JsonEncrypted(session,
                <<"{\"error_code\":0,\"result\":{\"logout\":true}}">>, "logout"), S)

\* post_any, the final return: msg echoes endpoint and form
UnsupportedOutcome(S, endpoint, form) ==
    Outcome([Response(404, 404, "unsupported endpoint", NoData, <<>>, "unsupported")
                EXCEPT !.detail = endpoint \o <<"::", form>>], S)

\* post_any along branch, for the session the cookie resolves to
DecoAnswer(S, req, in, branch, session) ==
    CASE branch = "keys" ->
           Outcome(Response(200, 0, "password", NoData, <<>>, "keys"), S)
      [] branch = "auth" ->
           Outcome(Response(200, 0, "seq,key", NoData, <<>>, "auth"), S)
      [] branch = "login" ->
           LoginOutcome(S, HandleLogin(req.sign, req.data, in.r1, in.r2))
      [] branch = "unauthorized" ->
           Outcome(Response(403, 403, "unauthorized", NoData, <<>>, "unauthorized"), S)
      [] branch = "bad_stok" ->
           Outcome(Response(404, 404, "bad stok", NoData, <<>>, "bad_stok"), S)
      [] branch = "payload_error" -> Outcome(ServerError("payload_error"), S)
      [] branch = "device_list" ->
           Outcome(JsonEncrypted(session,
               <<"{\"error_code\":0,\"result\":{\"device_list\":[]}}">>, "device_list"), S)
      [] branch = "wan_ipv4" ->
           Outcome(JsonEncrypted(session,
               <<"{\"error_code\":0,\"result\":{\"wan\":{}}}">>, "wan_ipv4"), S)
      [] branch = "performance" ->
           Outcome(JsonEncrypted(session, PerformanceJson(in.cpu_h, in.mem_h),
                                 "performance"), S)
      [] branch = "wlan" ->
           WlanOutcome(S, session, ReadRequestPayload(session, req.data))
      [] branch = "client_list" ->
           ClientListOutcome(S, session,
               ClientListRuntime(S.client_runtime, in.draws, in.elapsed))
      [] branch = "system" ->
           Outcome(JsonEncrypted(session,
               <<"{\"error_code\":0,\"result\":{\"reboot\":\"ok\"}}">>, "system"), S)
      [] branch = "logout" -> LogoutOutcome(S, session)
      [] OTHER ->
           UnsupportedOutcome(S, RemoveAll(req.path, StokPrefix(session.stok)), req.form)

\* post_any: the response to req and the instance's state after it
DecoPostAny(S, req, in) ==
    DecoAnswer(S, req, in, DecoBranch(S.sessions, req),
               SessionFromRequest(S.sessions, req.cookie))

----------------------------------------------------------------------------
(* Deco: the requests and draws the model steps with *)

CookieOf(token) == <<"sysauth=">> \o token

\* the text with its p-th fragment replaced by c
ReplaceAt(s, p, c) == [s EXCEPT ![p] = c]

\* the key/IV pairs clients negotiate
ClientKeys == {FromAscii(<<"K1">>, <<"V1">>), FromAscii(<<"K2">>, <<"V2">>)}

\* sign = RSA("k=<key>&i=<iv>") in one chunk
GoodSign(aes) ==
    SignOf(<<SignChunk("ok", <<"k", "=">> \o aes.key \o <<"&", "i", "=">> \o aes.iv)>>)

\* the same text split over two chunks, the second NUL padded
SplitSign(aes) ==
    SignOf(<<SignChunk("ok", <<"k", "=">> \o aes.key \o <<"&">>),
             SignChunk("ok", <<"i", "=">> \o aes.iv \o <<NulFrag, NulFrag>>)>>)

\* what a client that holds aes sends as data for the document doc
ClientData(aes, doc) == EncryptB64(aes, doc)

\* sysauth and stok of the k-th login of an instance (draws 2k-1 and 2k)
SysauthOfLogin(k) == MintSysauth(2 * k - 1)

StokOfLogin(k) == MintStok(2 * k)

\* a value secrets never hands out as a sysauth (resp. as a stok)
UnissuedSysauth == MintSysauth(2)

UnissuedStok == MintStok(1)

DecoCommands ==
    {<<"admin/device", "device_list">>, <<"admin/network", "wan_ipv4">>,
     <<"admin/network", "performance">>, <<"admin/wireless", "wlan">>,
     <<"admin/client", "client_list">>, <<"admin/device", "system">>,
     <<"admin/system", "logout">>, <<"admin/device", "wlan">>,
     <<"admin/unknown", "">>, <<"login", "other">>}

StepCookies ==
    {<<>>, CookieOf(UnissuedSysauth)} \cup {CookieOf(SysauthOfLogin(k)) : k \in 1..MaxLogins}

StepStoks == {<<>>} \cup {StokOfLogin(k) : k \in 1..MaxLogins}

MalformedData ==
    {[kind |-> "nonb64", key |-> <<>>, iv |-> <<>>, pt |-> <<>>],
     [kind |-> "badlen", key |-> <<>>, iv |-> <<>>, pt |-> <<>>],
     Ciphertext(<<"K1">>, <<"V1">>, DocLogin \o <<CtlFrag(0)>>),
     Ciphertext(<<"K1">>, <<"V1">>, DocLogin \o <<CtlFrag(17)>>),
     Ciphertext(<<"K1">>, <<"V1">>, <<BadUtf8, CtlFrag(1)>>)}

EmptySign == [kind |-> "empty", chunks |-> <<>>]

EmptyData == [kind |-> "empty", key |-> <<>>, iv |-> <<>>, pt |-> <<>>]

BadSigns ==
    {SignOf(<<SignChunk("short", <<>>)>>),
     SignOf(<<SignChunk("ok", <<"k", "=", "K1", "&">>), SignChunk("nonhex", <<>>)>>),
     SignOf(<<SignChunk("garbled", <<>>)>>),
     SignOf(<<SignChunk("ok", <<"k", "=", "K1">>)>>),
     SignOf(<<SignChunk("ok", <<"x", "=", "K1", "&", "i", "=", "V1">>)>>),
     SignOf(<<SignChunk("ok", <<"k", "=", "&", "i", "=", "V1">>)>>)}

LoginDocs == {DocLogin, DocRead, DocEmptyObject, DocArray, DocNotJson}

\* the (sign, data) pairs of the login requests
LoginBodies ==
    {<<sign, data>> : sign \in {NoSign, EmptySign, GoodSign(FromAscii(<<"K1">>, <<"V1">>))},
                      data \in {NoData, EmptyData}}
    \cup {<<sign, ClientData(FromAscii(<<"K1">>, <<"V1">>), DocLogin)>> :
             sign \in BadSigns \cup {NoSign, EmptySign, GoodSign(FromAscii(<<"Kbad">>, <<"V1">>)),
                                     GoodSign(FromAscii(<<"K2">>, <<"V2">>))}}
    \cup {<<GoodSign(FromAscii(<<"K1">>, <<"V1">>)), data>> : data \in MalformedData}
    \cup UNION {{<<sign, ClientData(aes, doc)>> :
                    sign \in {GoodSign(aes), SplitSign(aes)}, doc \in LoginDocs} :
                 aes \in ClientKeys}

LoginRequests ==
    {Request(LoginPath, "login", <<>>, b[1], b[2]) : b \in LoginBodies}

WlanDocs ==
    {DocRead, DocEmptyObject, DocArray, DocNotJson, DocWriteParamsArray,
     DocWriteBandScalar("band5"), DocWriteNoEnable("band5", "host"),
     DocWrite("band2_4", "guest", "true"), DocWrite("band2_4", "host", "0"),
     DocWrite("band5", "host", "false"), DocWrite("band5", "host", "true"),
     DocWrite("band5", "guest", "true"), DocWrite("band6", "host", "true")}

\* the requests for one (endpoint, form) pair, with no body
CommandRequests(c) ==
    {Request(PathOf(stok, <<c[1]>>), c[2], cookie, NoSign, NoData) :
        stok \in StepStoks, cookie \in StepCookies}

\* the requests of the steps, by (endpoint, form) pair
RequestsOf == [c \in DecoCommands |-> CommandRequests(c)]

AllCommandRequests == UNION {RequestsOf[c] : c \in DecoCommands}

\* requests with a body, sent by the holder of the k-th session
BodyRequests(c) ==
    {Request(PathOf(StokOfLogin(k), <<c[1]>>), c[2], CookieOf(SysauthOfLogin(k)), NoSign, data) :
        k \in 1..MaxLogins,
        data \in MalformedData \cup {EmptyData}
                 \cup {ClientData(aes, doc) : aes \in ClientKeys, doc \in WlanDocs}}

WlanBodyRequests == BodyRequests(<<"admin/wireless", "wlan">>)

DeviceListBodyRequests == BodyRequests(<<"admin/device", "device_list">>)

\* the draws of a client-list read: the same online draw for every client,
\* rates drawn at the lower end or kept
StepDraws ==
    {[mac \in DecoMacs |-> ClientDraw(u, RateDraw(0, 100), RateDraw(0, 100))] : u \in {0, 999}}

NoDraws == [mac \in DecoMacs |-> ClientDraw(999, RateDraw(0, 100), RateDraw(0, 100))]

\* the inputs of a request that reads no clock and draws nothing but tokens
PlainInputs == Inputs(rng + 1, rng + 2, NoDraws, 10, 100, 100)

ClientListInputs == {Inputs(rng + 1, rng + 2, draws, 10, 100, 100) : draws \in StepDraws}

----------------------------------------------------------------------------
(* Deco: initial state and actions *)

EmptyRegistry == [token \in {} |-> NoSession]

CatalogEntry(mac) == CHOOSE j \in 1..Len(DecoCatalog) : DecoCatalog[j].mac = mac

\* TplinkDecoX50Mock.__init__
DecoInit ==
    /\ rng = 0
    /\ sessions = EmptyRegistry
    /\ wireless = WirelessBaseline
    /\ \E p \in {0, 1000} :
          client_runtime =
              [mac \in DecoMacs |->
                  BuildClientRuntime(DecoCatalog[CatalogEntry(mac)],
                                     ClientDraw(0, RateDraw(p, 100), RateDraw(p, 100)))]
    /\ decoReads = 0

DecoNow == DecoState(sessions, wireless, client_runtime)

\* the instance takes the state of the outcome out
DecoApply(branch, out) ==
    /\ out.state.sessions # sessions => Cardinality(DOMAIN sessions) < MaxLogins
    /\ branch = "client_list" => decoReads < MaxReads
    /\ sessions' = out.state.sessions
    /\ wireless' = out.state.wireless
    /\ client_runtime' = out.state.client_runtime
    /\ rng' = 2 * Cardinality(DOMAIN out.state.sessions)
    /\ decoReads' = IF branch = "client_list" THEN decoReads + 1 ELSE decoReads
    /\ UNCHANGED <<beVars, omVars, lockVars, concVars>>

KeysRequest == Request(LoginPath, "keys", <<>>, NoSign, NoData)

AuthRequest == Request(LoginPath, "auth", <<>>, NoSign, NoData)

DecoKeys ==
    /\ DecoBranch(sessions, KeysRequest) = "keys"
    /\ DecoApply("keys", DecoPostAny(DecoNow, KeysRequest, PlainInputs))

DecoAuth ==
    /\ DecoBranch(sessions, AuthRequest) = "auth"
    /\ DecoApply("auth", DecoPostAny(DecoNow, AuthRequest, PlainInputs))

DecoLogin == \E req \in LoginRequests :
        /\ DecoBranch(sessions, req) = "login"
        /\ DecoApply("login", DecoPostAny(DecoNow, req, PlainInputs))

DecoUnauthorized == \E req \in AllCommandRequests :
        /\ DecoBranch(sessions, req) = "unauthorized"
        /\ DecoApply("unauthorized", DecoPostAny(DecoNow, req, PlainInputs))

DecoBadStok == \E req \in AllCommandRequests :
        /\ DecoBranch(sessions, req) = "bad_stok"
        /\ DecoApply("bad_stok", DecoPostAny(DecoNow, req, PlainInputs))

DecoPayloadError ==
    \E req \in DeviceListBodyRequests :
        /\ DecoBranch(sessions, req) = "payload_error"
        /\ DecoApply("payload_error", DecoPostAny(DecoNow, req, PlainInputs))

DecoDeviceList ==
    \E req \in RequestsOf[<<"admin/device", "device_list">>] :
        /\ DecoBranch(sessions, req) = "device_list"
        /\ DecoApply("device_list", DecoPostAny(DecoNow, req, PlainInputs))

DecoWanIpv4 ==
    \E req \in RequestsOf[<<"admin/network", "wan_ipv4">>] :
        /\ DecoBranch(sessions, req) = "wan_ipv4"
        /\ DecoApply("wan_ipv4", DecoPostAny(DecoNow, req, PlainInputs))

DecoPerformance ==
    \E req \in RequestsOf[<<"admin/network", "performance">>] :
        /\ DecoBranch(sessions, req) = "performance"
        /\ DecoApply("performance", DecoPostAny(DecoNow, req, PlainInputs))

DecoWlan ==
    \E req \in RequestsOf[<<"admin/wireless", "wlan">>]
                 \cup WlanBodyRequests :
        /\ DecoBranch(sessions, req) = "wlan"
        /\ DecoApply("wlan", DecoPostAny(DecoNow, req, PlainInputs))

DecoClientList ==
    \E req \in RequestsOf[<<"admin/client", "client_list">>], in \in ClientListInputs :
        /\ DecoBranch(sessions, req) = "client_list"
        /\ DecoApply("client_list", DecoPostAny(DecoNow, req, in))

DecoSystem ==
    \E req \in RequestsOf[<<"admin/device", "system">>] :
        /\ DecoBranch(sessions, req) = "system"
        /\ DecoApply("system", DecoPostAny(DecoNow, req, PlainInputs))

DecoLogout ==
    \E req \in RequestsOf[<<"admin/system", "logout">>] :
        /\ DecoBranch(sessions, req) = "logout"
        /\ DecoApply("logout", DecoPostAny(DecoNow, req, PlainInputs))

DecoUnsupported == \E req \in AllCommandRequests :
        /\ DecoBranch(sessions, req) = "unsupported"
        /\ DecoApply("unsupported", DecoPostAny(DecoNow, req, PlainInputs))

DecoNext ==
    \/ DecoKeys \/ DecoAuth \/ DecoLogin \/ DecoUnauthorized \/ DecoBadStok
    \/ DecoPayloadError \/ DecoDeviceList \/ DecoWanIpv4 \/ DecoPerformance
    \/ DecoWlan \/ DecoClientList \/ DecoSystem \/ DecoLogout \/ DecoUnsupported

----------------------------------------------------------------------------
(* urllib.parse.parse_qs and shared/rsa_session.py: parse_form_body.  A query
   or form text is a sequence of fragments in which "&" and "=" are fragments
   of their own; no fragment holds a "%" or a "+", so unquoting changes
   nothing. *)

\* str.split(sep): the pieces between the separators
RECURSIVE SplitOn(_, _)
SplitOn(text, sep) ==
    LET piece == TakeUntil(text, {sep})
    IN IF Len(piece) = Len(text) THEN <<piece>>
       ELSE <<piece>> \o SplitOn(SubSeq(text, Len(piece) + 2, Len(text)), sep)

\* parse_qsl for one field: fields without "=" and, unless keep_blank_values,
\* fields with an empty value are dropped
QsField(field, keep_blank_values) ==
    LET name == TakeUntil(field, {"="})
        has_eq == Len(name) < Len(field)
        value == IF has_eq THEN SubSeq(field, Len(name) + 2, Len(field)) ELSE <<>>
    IN IF field = <<>> THEN <<>>
       ELSE IF ~has_eq /\ ~keep_blank_values THEN <<>>
       ELSE IF value = <<>> /\ ~keep_blank_values THEN <<>>
       ELSE <<[name |-> name, value |-> value]>>

RECURSIVE QsFields(_, _)
QsFields(fields, keep_blank_values) ==
    IF fields = <<>> THEN <<>>
    ELSE QsField(Head(fields), keep_blank_values) \o QsFields(Tail(fields), keep_blank_values)

\* parse_qs(text, keep_blank_values).get(name): the values of name in order,
\* <<>> when there is none (None)
ParseQsGet(text, name, keep_blank_values) ==
    LET pairs == QsFields(SplitOn(text, "&"), keep_blank_values)
        hits == SelectSeq(pairs, LAMBDA pair : pair.name = name)
    IN [j \in 1..Len(hits) |-> hits[j].value]

\* (query.get(name) or [""])[0]
FirstOf(values) == IF values = <<>> THEN <<>> ELSE values[1]

\* values[-1]
LastOf(values) == values[Len(values)]

\* parse_form_body(raw).get(name): the last value of name, NoValue when the
\* body has no such field
NoValue == <<"None">>

FormBodyGet(body, name) ==
    LET values == ParseQsGet(body, name, TRUE)
    IN IF values = <<>> THEN NoValue ELSE LastOf(values)

\* needle in text
Contains(text, needle) ==
    \E j \in 0..(Len(text) - Len(needle)) : SubSeq(text, j + 1, j + Len(needle)) = needle

----------------------------------------------------------------------------
(* profiles/tplink_router_be230.py *)

\* the keys of fixture["status"] the wifi switches of the baseline use
BeStatusBaseline ==
    (<<"wireless_2g", "_enable">> :> <<"on">>) @@ (<<"wireless_5g", "_enable">> :> <<"on">>)
    @@ (<<"guest_2g", "_enable">> :> <<"off">>) @@ (<<"guest_5g", "_enable">> :> <<"off">>)

BeInitialStok == <<"be230-", "stok">>

BeState(stok, known_stoks, sysauth, status) ==
    [stok |-> stok, known_stoks |-> known_stoks, sysauth |-> sysauth, status |-> status]

\* a request: path, query string, cookie header and body
BeRequest(path, query, cookie, body) ==
    [path |-> path, query |-> query, cookie |-> cookie, body |-> body]

\* a response: HTTP status, the handler that returned, the stok of the body
\* and the token of the set-cookie header (<<>> when there is none)
BeResponse(status, by, stok, cookie) ==
    [status |-> status, by |-> by, stok |-> stok, cookie |-> cookie]

BeMintStok(r) == <<"be230-">> \o TokenHex(6, r)

\* TplinkRouterBe230Mock.handle_login: it takes no argument of the request
BeHandleLogin(S, r1, r2) ==
    Outcome(BeResponse(200, "login", BeMintStok(r1), TokenHex(16, r2)),
            BeState(BeMintStok(r1), S.known_stoks \cup {BeMintStok(r1)},
                    TokenHex(16, r2), S.status))

\* TplinkRouterBe230Mock.handle_wifi_toggle
BeHandleWifiToggle(S, form_name, enable_raw) ==
    Outcome(BeResponse(200, "wifi_toggle", <<>>, <<>>),
            IF enable_raw \in {<<"on">>, <<"off">>}
            THEN [S EXCEPT !.status = ((form_name \o <<"_enable">>) :> enable_raw) @@ S.status]
            ELSE S)

ExtractEndpointEmptyStok(path) ==
    IF path = <<>> \/ Head(path) # LuciPrefix THEN <<>>
    ELSE LET stok == TakeUntil(Tail(path), {"/"})
         IN IF Len(stok) + 1 >= Len(path) THEN <<>>
            ELSE SubSeq(path, Len(stok) + 3, Len(path))

\* TplinkRouterBe230Mock.extract_endpoint:
\* re.match(r"^/cgi-bin/luci/;stok=[^/]+/(.+)$", path); <<>> stands for None.
\* LuciPrefix and "/" are the only fragments that hold a slash.
ExtractEndpoint(path) ==
    IF path = <<>> \/ Head(path) # LuciPrefix THEN <<>>
    ELSE LET stok == TakeUntil(Tail(path), {"/"})
         IN IF stok = <<>> \/ Len(stok) + 1 >= Len(path) THEN <<>>
            ELSE SubSeq(path, Len(stok) + 3, Len(path))

BeLoginPath == <<LuciPrefix, "/", "login">>

BeDeviceConfigPath == <<LuciPrefix, "/", "device_config">>

BeFormIs(query, form) == Contains(query, <<"form", "=", form>>)

\* the chain of tests of post_any on an extracted endpoint
BeCommandOf(endpoint, query, body) ==
    IF StartsWith(endpoint, <<"admin", "/", "status">>) /\ BeFormIs(query, "all")
    THEN "status_all"
    ELSE IF StartsWith(endpoint, <<"admin", "/", "status">>) /\ BeFormIs(query, "perf")
    THEN "status_perf"
    ELSE IF StartsWith(endpoint, <<"admin", "/", "firmware">>) THEN "firmware"
    ELSE IF StartsWith(endpoint, <<"admin", "/", "network">>) THEN "network_ipv4"
    ELSE IF StartsWith(endpoint, <<"admin", "/", "wireless">>) /\ BeFormIs(query, "statistics")
    THEN "wireless_statistics"
    ELSE IF StartsWith(endpoint, <<"admin", "/", "smart_network">>) THEN "smart_network"
    ELSE IF StartsWith(endpoint, <<"admin", "/", "system">>) /\ BeFormIs(query, "reboot")
    THEN "reboot"
    ELSE IF StartsWith(endpoint, <<"admin", "/", "system">>) /\ BeFormIs(query, "logout")
    THEN "logout"
    ELSE IF StartsWith(endpoint, <<"admin", "/", "wireless">>)
            /\ FormBodyGet(body, <<"operation">>) = <<"write">>
    THEN (IF ParseQsGet(query, <<"form">>, FALSE) # <<>> THEN "wifi_toggle" ELSE "write_unnamed")
    ELSE IF StartsWith(endpoint, <<"admin", "/", "openvpn">>)
            \/ StartsWith(endpoint, <<"admin", "/", "pptpd">>)
    THEN "vpn"
    ELSE IF StartsWith(endpoint, <<"admin", "/", "vpnconn">>) THEN "vpnconn"
    ELSE "unsupported"

\* the branch of post_any that answers a request outside the login forms
BeEndpointBranch(endpoint, req) ==
    IF endpoint = <<>> THEN "unsupported" ELSE BeCommandOf(endpoint, req.query, req.body)

\* the branch of post_any that answers req, in the order the code tests them
BeBranch(req) ==
    IF req.path = BeLoginPath
       /\ FirstOf(ParseQsGet(req.query, <<"form">>, FALSE))
              \in {<<"keys">>, <<"auth">>, <<"login">>}
    THEN FirstOf(ParseQsGet(req.query, <<"form">>, FALSE))[1]
    ELSE IF req.path = BeDeviceConfigPath THEN "device_config"
    ELSE BeEndpointBranch(ExtractEndpoint(req.path), req)

\* post_any along branch
BeAnswer(S, req, in, branch) ==
    CASE branch = "login" -> BeHandleLogin(S, in.r1, in.r2)
      [] branch = "wifi_toggle" ->
           BeHandleWifiToggle(S, LastOf(ParseQsGet(req.query, <<"form">>, FALSE)),
               FormBodyGet(req.body,
                   LastOf(ParseQsGet(req.query, <<"form">>, FALSE)) \o <<"_enable">>))
      [] branch = "unsupported" -> Outcome(BeResponse(404, "unsupported", <<>>, <<>>), S)
      [] OTHER -> Outcome(BeResponse(200, branch, <<>>, <<>>), S)

\* the "error" member of the body of a response: the final return of post_any
\* sets it to the fixed text "unsupported", the other returns set none
BeErrorOf(resp) == IF resp.by = "unsupported" THEN <<"unsupported">> ELSE <<>>

\* post_any: the response to req and the instance's state after it
BePostAny(S, req, in) == BeAnswer(S, req, in, BeBranch(req))

----------------------------------------------------------------------------
(* BE230: the requests the model steps with, initial state and actions *)

\* the stok of the k-th login (draw 2k) and its sysauth (draw 2k + 1); the
\* sysauth of construction is draw 1
BeStokOfLogin(k) == BeMintStok(2 * k)

BeSysauthOfLogin(k) == TokenHex(16, 2 * k + 1)

BeUnissuedStok == <<"x">>

BeStepStoks == {<<>>, BeInitialStok, BeUnissuedStok} \cup {BeStokOfLogin(k) : k \in 1..MaxLogins}

BePathOf(stok, endpoint) == <<LuciPrefix>> \o stok \o <<"/">> \o endpoint

BeEndpoints ==
    {<<"admin", "/", "status">>, <<"admin", "/", "firmware">>, <<"admin", "/", "network">>,
     <<"admin", "/", "wireless">>, <<"admin", "/", "smart_network">>,
     <<"admin", "/", "system">>, <<"admin", "/", "openvpn">>, <<"admin", "/", "pptpd">>,
     <<"admin", "/", "vpnconn">>, <<"admin", "/", "other">>, <<"login">>, <<"device_config">>,
     <<>>}

BeQueries ==
    {<<>>} \cup {<<"form", "=", f>> :
                    f \in {"keys", "auth", "login", "all", "perf", "statistics", "reboot",
                           "logout", "wireless_2g", "guest_2g", "guest_5g", "iot"}}
    \cup {<<"x", "form", "=", "all">>, <<"form", "=">>,
          <<"form", "=", "guest_2g", "&", "form", "=", "wireless_5g">>}

\* a write body for the switch of form f
BeWriteBody(f, v) == <<"operation", "=", "write", "&", f, "_enable", "=", v>>

BeBodies ==
    {<<>>, <<"operation", "=", "read">>}
    \cup {BeWriteBody(f, v) :
             f \in {"wireless_2g", "wireless_5g", "guest_2g", "guest_5g", "iot"},
             v \in {"on", "off", "maybe"}}

\* the requests for one (endpoint, query) pair
BeRequestsFor(endpoint, query) ==
    {BeRequest(BePathOf(stok, endpoint), query, cookie, body) :
        stok \in BeStepStoks, cookie \in {<<>>, CookieOf(TokenHex(16, 1))}, body \in {<<>>}}

BeFormRequests ==
    [f \in {"keys", "auth", "login", "all", "perf", "statistics", "reboot", "logout"} |->
        UNION {BeRequestsFor(e, <<"form", "=", f>>) :
                  e \in {<<"login">>, <<"admin", "/", "status">>, <<"admin", "/", "wireless">>,
                         <<"admin", "/", "system">>}}]

BeEndpointRequests == [e \in BeEndpoints |-> BeRequestsFor(e, <<>>)]

BeWriteRequests ==
    {BeRequest(BePathOf(stok, <<"admin", "/", "wireless">>), query, <<>>, body) :
        stok \in {BeUnissuedStok}, query \in BeQueries, body \in BeBodies}

BeUnsupportedRequests ==
    UNION {BeRequestsFor(e, q) : e \in BeEndpoints, q \in {<<>>, <<"form", "=", "all">>}}

BeNow == BeState(be_stok, be_known_stoks, be_sysauth, be_status)

BeInputs == Inputs(be_rng + 1, be_rng + 2, <<>>, 0, 100, 100)

\* TplinkRouterBe230Mock.__init__
BeInit ==
    /\ be_rng = 1
    /\ be_stok = BeInitialStok
    /\ be_known_stoks = {BeInitialStok}
    /\ be_sysauth = TokenHex(16, 1)
    /\ be_status = BeStatusBaseline

\* the instance takes the state of the outcome out
BeApply(out) ==
    /\ out.state.stok # be_stok => Cardinality(be_known_stoks) <= MaxLogins
    /\ be_stok' = out.state.stok
    /\ be_known_stoks' = out.state.known_stoks
    /\ be_sysauth' = out.state.sysauth
    /\ be_status' = out.state.status
    /\ be_rng' = IF out.state.stok # be_stok THEN be_rng + 2 ELSE be_rng
    /\ UNCHANGED <<decoVars, omVars, lockVars, concVars>>

BeKeys == \E req \in BeFormRequests["keys"] :
        /\ BeBranch(req) = "keys"
        /\ BeApply(BePostAny(BeNow, req, BeInputs))

BeAuth == \E req \in BeFormRequests["auth"] :
        /\ BeBranch(req) = "auth"
        /\ BeApply(BePostAny(BeNow, req, BeInputs))

BeLogin == \E req \in BeFormRequests["login"] :
        /\ BeBranch(req) = "login"
        /\ BeApply(BePostAny(BeNow, req, BeInputs))

BeDeviceConfig == \E req \in BeEndpointRequests[<<"device_config">>] :
        /\ BeBranch(req) = "device_config"
        /\ BeApply(BePostAny(BeNow, req, BeInputs))

BeStatusAll == \E req \in BeFormRequests["all"] :
        /\ BeBranch(req) = "status_all"
        /\ BeApply(BePostAny(BeNow, req, BeInputs))

BeStatusPerf == \E req \in BeFormRequests["perf"] :
        /\ BeBranch(req) = "status_perf"
        /\ BeApply(BePostAny(BeNow, req, BeInputs))

BeFirmware == \E req \in BeEndpointRequests[<<"admin", "/", "firmware">>] :
        /\ BeBranch(req) = "firmware"
        /\ BeApply(BePostAny(BeNow, req, BeInputs))

BeNetworkIpv4 ==
    \E req \in BeEndpointRequests[<<"admin", "/", "network">>] :
        /\ BeBranch(req) = "network_ipv4"
        /\ BeApply(BePostAny(BeNow, req, BeInputs))

BeWirelessStatistics ==
    \E req \in BeFormRequests["statistics"] :
        /\ BeBranch(req) = "wireless_statistics"
        /\ BeApply(BePostAny(BeNow, req, BeInputs))

BeSmartNetwork ==
    \E req \in BeEndpointRequests[<<"admin", "/", "smart_network">>] :
        /\ BeBranch(req) = "smart_network"
        /\ BeApply(BePostAny(BeNow, req, BeInputs))

BeReboot == \E req \in BeFormRequests["reboot"] :
        /\ BeBranch(req) = "reboot"
        /\ BeApply(BePostAny(BeNow, req, BeInputs))

BeLogout == \E req \in BeFormRequests["logout"] :
        /\ BeBranch(req) = "logout"
        /\ BeApply(BePostAny(BeNow, req, BeInputs))

BeWifiToggle == \E req \in BeWriteRequests :
        /\ BeBranch(req) = "wifi_toggle"
        /\ BeApply(BePostAny(BeNow, req, BeInputs))

BeWriteUnnamed == \E req \in BeWriteRequests :
        /\ BeBranch(req) = "write_unnamed"
        /\ BeApply(BePostAny(BeNow, req, BeInputs))

BeVpn ==
    \E req \in BeEndpointRequests[<<"admin", "/", "openvpn">>]
                 \cup BeEndpointRequests[<<"admin", "/", "pptpd">>] :
        /\ BeBranch(req) = "vpn"
        /\ BeApply(BePostAny(BeNow, req, BeInputs))

BeVpnconn == \E req \in BeEndpointRequests[<<"admin", "/", "vpnconn">>] :
        /\ BeBranch(req) = "vpnconn"
        /\ BeApply(BePostAny(BeNow, req, BeInputs))

BeUnsupported == \E req \in BeUnsupportedRequests :
        /\ BeBranch(req) = "unsupported"
        /\ BeApply(BePostAny(BeNow, req, BeInputs))

BeNext ==
    \/ BeKeys \/ BeAuth \/ BeLogin \/ BeDeviceConfig \/ BeStatusAll \/ BeStatusPerf
    \/ BeFirmware \/ BeNetworkIpv4 \/ BeWirelessStatistics \/ BeSmartNetwork
    \/ BeReboot \/ BeLogout \/ BeWifiToggle \/ BeWriteUnnamed \/ BeVpn \/ BeVpnconn
    \/ BeUnsupported

----------------------------------------------------------------------------
(* shared/omada_controller_mock.py.  A JSON value is the text that encodes
   it ("true", "\"A\"", "1700000000"); a record is a function from its keys
   to such values, with the flap descriptor beside it. *)

\* str.lower and str.upper on the fragments hardware addresses are spelled with
LowerFrag(f) == CASE f \in {"AA", "Aa", "aa"} -> "aa" [] f \in {"0B", "0b"} -> "0b" [] OTHER -> f

UpperFrag(f) == CASE f \in {"AA", "Aa", "aa"} -> "AA" [] f \in {"0B", "0b"} -> "0B" [] OTHER -> f

\* str.strip
RECURSIVE Strip(_)
Strip(text) ==
    IF text # <<>> /\ Head(text) = " " THEN Strip(Tail(text))
    ELSE IF text # <<>> /\ text[Len(text)] = " " THEN Strip(SubSeq(text, 1, Len(text) - 1))
    ELSE text

NormalizeMacCased(mac) == Strip([j \in 1..Len(mac) |-> IF mac[j] = ":" THEN "-" ELSE mac[j]])

\* _normalize_mac: mac.replace(":", "-").strip().lower()
NormalizeMac(mac) ==
    Strip([j \in 1..Len(mac) |-> IF mac[j] = ":" THEN "-" ELSE LowerFrag(mac[j])])

\* mac.upper()
UpperMac(mac) == [j \in 1..Len(mac) |-> UpperFrag(mac[j])]

\* the flap descriptor of a record; on_ratio is num/den
NoFlap == [has |-> FALSE, period_seconds |-> 0, num |-> 0, den |-> 1, offset_seconds |-> 0]

Flap(period_seconds, num, den, offset_seconds) ==
    [has |-> TRUE, period_seconds |-> period_seconds, num |-> num, den |-> den,
     offset_seconds |-> offset_seconds]

OmRecord(fields, flap) == [fields |-> fields, flap |-> flap]

\* dict.get(key) of a record, JSON null when the key is missing
FieldOf(record, key) == IF key \in DOMAIN record.fields THEN record.fields[key] ELSE "null"

\* bool(value) of a JSON value
Truthy(value) == value \notin JsonFalsy

\* the controller of the fixture
OmControllerId == "omadac-1"

OmSiteId == "site-1"

OmUsername == "\"admin\""

OmPassword == "\"admin\""

\* the clients and known clients of the fixture
OmClientsBaseline ==
    <<OmRecord([mac |-> <<"AA", "-", "0B", "-", "01">>, name |-> "\"laptop\"",
                hostName |-> "\"laptop\"", active |-> "true", wireless |-> "true",
                guest |-> "false", ip |-> "\"10.50.0.20\"", lastSeen |-> "1000"],
               Flap(4, 1, 2, 0)),
      OmRecord([mac |-> <<"AA", "-", "0B", "-", "02">>, name |-> "\"camera\"",
                hostName |-> "\"camera\"", active |-> "false", wireless |-> "true",
                guest |-> "true", ip |-> "\"10.50.0.21\"", lastSeen |-> "1000"],
               NoFlap)>>

OmKnownClientsBaseline ==
    <<OmRecord([mac |-> <<"AA", "-", "0B", "-", "01">>, name |-> "\"laptop\"",
                wireless |-> "true", guest |-> "false", block |-> "false",
                lastSeen |-> "1000"], NoFlap)>>

OmState(tokens, clients, known_clients, devices, gateway_details, switch_details,
        ap_details, switch_ports) ==
    [tokens |-> tokens, clients |-> clients, known_clients |-> known_clients,
     devices |-> devices, gateway_details |-> gateway_details,
     switch_details |-> switch_details, ap_details |-> ap_details,
     switch_ports |-> switch_ports]

\* a request: the route, the path parameters, the Csrf-Token header, the body
\* and the query parameters filters.active, currentPage and currentPageSize
OmRequest(route, controller_id, site, mac, token, body, filters_active, page, size) ==
    [route |-> route, controller_id |-> controller_id, site |-> site, mac |-> mac,
     token |-> token, body |-> body, filters_active |-> filters_active,
     page |-> page, size |-> size]

\* a response: HTTP status, errorCode and msg of the body, the route that
\* returned, the token of the result and the records of the result
OmResponse(status, errorCode, msg, by, token, items) ==
    [status |-> status, errorCode |-> errorCode, msg |-> msg, by |-> by,
     token |-> token, items |-> items]

\* OmadaControllerMock._ok
OmOk(by, token, items) == OmResponse(200, 0, "", by, token, items)

\* OmadaControllerMock._not_found
OmNotFound(by, msg) == OmResponse(404, -30104, msg, by, <<>>, <<>>)

\* an exception that leaves a handler: the server answers 500
OmServerError(by) == OmResponse(500, 500, "Internal Server Error", by, <<>>, <<>>)

\* a request body: what request.json() makes of it.  kind is "object" (with
\* its fields), "array" (the empty array), "scalar" or "malformed"
OmBody(kind, fields) == [kind |-> kind, fields |-> fields]

NoFields == [key \in {} |-> ""]

\* index of the first record of items whose normalized mac is norm, 0 if none
IndexOfMac(items, norm) ==
    LET hits == {j \in 1..Len(items) : NormalizeMac(items[j].fields.mac) = norm}
    IN IF hits = {} THEN 0 ELSE Least(hits)

\* the last five characters of a mac spelled in two-character groups and
\* one-character separators
LastFive(mac) == IF Len(mac) <= 3 THEN mac ELSE SubSeq(mac, Len(mac) - 2, Len(mac))

\* the characters of text as one string
RECURSIVE Joined(_)
Joined(text) == IF text = <<>> THEN "" ELSE Head(text) \o Joined(Tail(text))

\* f"client-{mac[-5:]}" as a JSON value
FallbackName(mac) == "\"client-" \o Joined(LastFive(mac)) \o "\""

\* dict.update: the keys of patch replace or extend those of fields
Updated(fields, patch) == patch @@ fields

\* the record _ensure_client appends for an unknown mac; now is
\* int(time.time() * 1000), the clock in milliseconds
FallbackClient(clients, mac, now) ==
    LET base == IF clients = <<>> THEN OmRecord(NoFields, NoFlap) ELSE clients[1]
    IN OmRecord(
           Updated(base.fields,
               [mac |-> UpperMac(mac),
                name |-> IF Truthy(FieldOf(base, "name")) THEN base.fields.name
                         ELSE FallbackName(mac),
                hostName |-> IF Truthy(FieldOf(base, "hostName")) THEN base.fields.hostName
                             ELSE FallbackName(mac),
                active |-> "true", wireless |-> "true", guest |-> "false",
                connectType |-> "\"wireless_user\"", connectDevType |-> "\"ap\"",
                ip |-> IF Truthy(FieldOf(base, "ip")) THEN base.fields.ip
                       ELSE "\"10.50.0.250\"",
                lastSeen |-> ToString(now)]),
           base.flap)

\* the record _ensure_client appends to known_clients
FallbackKnown(known_clients, fallback, mac, now) ==
    LET base == IF known_clients = <<>> THEN OmRecord(NoFields, NoFlap) ELSE known_clients[1]
    IN OmRecord(
           Updated(base.fields,
               [mac |-> UpperMac(mac), name |-> FieldOf(fallback, "name"),
                wireless |-> IF Truthy(FieldOf(fallback, "wireless")) THEN "true" ELSE "false",
                guest |-> IF Truthy(FieldOf(fallback, "guest")) THEN "true" ELSE "false",
                block |-> "false", lastSeen |-> ToString(now)]),
           base.flap)

\* OmadaControllerMock._ensure_client: the state after it
EnsureClient(S, mac, now) ==
    IF IndexOfMac(S.clients, NormalizeMac(mac)) # 0 THEN S
    ELSE [S EXCEPT
            !.clients = Append(S.clients, FallbackClient(S.clients, mac, now)),
            !.known_clients =
                IF IndexOfMac(S.known_clients, NormalizeMac(mac)) # 0 THEN S.known_clients
                ELSE Append(S.known_clients,
                         FallbackKnown(S.known_clients,
                             FallbackClient(S.clients, mac, now), mac, now))]

\* the index in the clients of S of the record _ensure_client returns
EnsuredIndex(S, mac) ==
    IF IndexOfMac(S.clients, NormalizeMac(mac)) # 0
    THEN IndexOfMac(S.clients, NormalizeMac(mac))
    ELSE Len(S.clients) + 1

\* max(2, int(flap.get("period_seconds", 60) or 60))
FlapPeriod(flap) == Max(2, IF flap.period_seconds = 0 THEN 60 ELSE flap.period_seconds)

\* OmadaControllerMock._is_client_active at the time now (seconds); a zero
\* on_ratio reads as 0.5, and the ratio is clamped to [0, 1]
IsClientActive(client, now) ==
    LET num == IF client.flap.num = 0 THEN 1 ELSE client.flap.num
        den == IF client.flap.num = 0 THEN 2 ELSE client.flap.den
        phase_num == (now + client.flap.offset_seconds) % FlapPeriod(client.flap)
    IN /\ Truthy(FieldOf(client, "active"))
       /\ client.flap.has =>
             phase_num * den < Max(0, Min(num, den)) * FlapPeriod(client.flap)

RuntimeClientAlwaysSeen(client, now) ==
    OmRecord(
        Updated(client.fields,
            [active |-> IF IsClientActive(client, now \div 1000) THEN "true" ELSE "false",
             lastSeen |-> ToString(now)]),
        client.flap)

RuntimeClientQuarters(client, now) ==
    OmRecord(
        Updated(client.fields,
            IF IsClientActive(client, now \div 250)
            THEN [active |-> "true", lastSeen |-> ToString(now)]
            ELSE [active |-> "false"]),
        client.flap)

\* one record of _runtime_clients, also the record get_client returns; now
\* is the clock in milliseconds, int(time.time()) its whole seconds
RuntimeClient(client, now) ==
    OmRecord(
        Updated(client.fields,
            IF IsClientActive(client, now \div 1000)
            THEN [active |-> "true", lastSeen |-> ToString(now)]
            ELSE [active |-> "false"]),
        client.flap)

\* TplinkRouterBe230Mock._is_online at the time now (seconds) of an entry
\* whose flap descriptor is flap: the period defaults to 120 and the entry
\* has no static flag
BeIsOnline(flap, now) ==
    LET period == Max(2, IF flap.period_seconds = 0 THEN 120 ELSE flap.period_seconds)
        num == IF flap.num = 0 THEN 1 ELSE flap.num
        den == IF flap.num = 0 THEN 2 ELSE flap.den
        phase_num == (now + flap.offset_seconds) % period
    IN flap.has => phase_num * den < Max(0, Min(num, den)) * period

\* TplinkRouterBe230Mock._jitter; h is the ratio drawn by uniform, in
\* hundredths, and the product is taken in two parts to stay within 32 bits
BeJitter(value, h, floor) ==
    IF value <= 0 THEN floor
    ELSE Max(floor, (value \div 100) * h + ((value % 100) * h) \div 100)

\* TplinkRouterBe230Mock._randomize_runtime_client, one of the four rates:
\* min(cap, _jitter(int(item.get(key, cap)), spread, floor)); field is <<>>
\* for an entry without the key and <<v>> for an entry that has it
BeRandomizedRate(field, cap, h, floor) ==
    Min(cap, BeJitter(IF field = <<>> THEN cap ELSE field[1], h, floor))

\* fixture["clients"]["smart_network"] of data/tplink_router_be230.json: of an
\* entry the model keeps its mac and its flap descriptor
BeSmartNetworkBaseline ==
    <<[mac |-> <<"BE", "-", "23", "-", "01">>, flap |-> Flap(4, 1, 2, 0)],
      [mac |-> <<"BE", "-", "23", "-", "02">>, flap |-> NoFlap],
      [mac |-> <<"BE", "-", "23", "-", "03">>, flap |-> Flap(3, 1, 3, 1)]>>

\* TplinkRouterBe230Mock._runtime_smart_network at the time now
\* (milliseconds): the entries that are online, without their flap; the
\* counters _randomize_runtime_client redraws are not kept
BeRuntimeSmartNetwork(entries, now) ==
    [j \in 1..Len(SelectSeq(entries, LAMBDA e : BeIsOnline(e.flap, now \div 1000))) |->
        [mac |-> SelectSeq(entries, LAMBDA e : BeIsOnline(e.flap, now \div 1000))[j].mac]]

\* TplinkRouterBe230Mock._normalize_mac: replace(":", "-").lower().strip()
BeNormalizeMac(value) == NormalizeMac(value)

\* online_macs of handle_status_all and handle_wireless_statistics
BeOnlineMacs(smart_network) ==
    {BeNormalizeMac(smart_network[j].mac) : j \in 1..Len(smart_network)}

\* TplinkRouterBe230Mock._runtime_access_clients: with no online address the
\* entries are returned as they are
BeRuntimeAccessClients(entries, online_macs) ==
    IF online_macs = {} THEN entries
    ELSE SelectSeq(entries, LAMBDA entry : BeNormalizeMac(entry.macaddr) \in online_macs)

\* TplinkRouterBe230Mock._runtime_wireless_stats: the entries listed; the
\* counters _randomize_wireless_stats redraws are not kept
BeRuntimeWirelessStats(items, online_macs) ==
    IF online_macs = {} THEN items
    ELSE SelectSeq(items, LAMBDA item : BeNormalizeMac(item.mac) \in online_macs)

\* TplinkRouterBe230Mock.handle_status_all: the three lists of the payload,
\* for the clients of the fixture at the time now (milliseconds)
BeHandleStatusAll(clients, now) ==
    LET online_macs == BeOnlineMacs(BeRuntimeSmartNetwork(clients.smart_network, now))
    IN [access_devices_wired |-> BeRuntimeAccessClients(clients.wired, online_macs),
        access_devices_wireless_host |-> BeRuntimeAccessClients(clients.host, online_macs),
        access_devices_wireless_guest |-> BeRuntimeAccessClients(clients.guest, online_macs)]

\* TplinkRouterBe230Mock.handle_wireless_statistics
BeHandleWirelessStatistics(clients, now) ==
    BeRuntimeWirelessStats(clients.wireless_stats,
        BeOnlineMacs(BeRuntimeSmartNetwork(clients.smart_network, now)))

\* OmadaControllerMock._runtime_clients
RuntimeClients(clients, now) == [j \in 1..Len(clients) |-> RuntimeClient(clients[j], now)]

\* items[start:end] for start >= 0
PySlice(items, start, end) ==
    SubSeq(items, Min(start, Len(items)) + 1,
           IF end < 0 THEN Max(0, Len(items) + end) ELSE Min(end, Len(items)))

\* OmadaControllerMock._paginate: the records of the page
Paginate(items, page, size) ==
    PySlice(items, Max(0, (page - 1) * size), Max(0, (page - 1) * size) + size)

RequireSiteController(controller_id, site) ==
    IF site # OmSiteId THEN "site not found"
    ELSE IF controller_id # OmControllerId THEN "controller not found"
    ELSE ""

\* OmadaControllerMock._require_controller_site: the error, or "" for None
RequireControllerSite(controller_id, site) ==
    IF controller_id # OmControllerId THEN "controller not found"
    ELSE IF site # OmSiteId THEN "site not found"
    ELSE ""

\* create_app.login; request.json() raises on a malformed body and
\* payload.get raises on a JSON value that is no object
OmLoginRoute(S, req, in) ==
    LET body == req.body
        username == IF "username" \in DOMAIN body.fields THEN body.fields.username ELSE "null"
        password == IF "password" \in DOMAIN body.fields THEN body.fields.password ELSE "null"
    IN IF req.controller_id # OmControllerId
       THEN Outcome(OmNotFound("login", "controller not found"), S)
       ELSE IF body.kind \in {"malformed", "array", "scalar"}
       THEN Outcome(OmServerError("login"), S)
       ELSE IF username # OmUsername \/ password # OmPassword
       THEN Outcome(OmResponse(401, -30109, "invalid credentials", "login", <<>>, <<>>), S)
       ELSE Outcome(OmOk("login", TokenHex(16, in.r1), <<>>),
                    [S EXCEPT !.tokens = S.tokens \cup {TokenHex(16, in.r1)}])

\* create_app.login_status
OmLoginStatusRoute(S, req) ==
    IF req.controller_id # OmControllerId
    THEN Outcome(OmNotFound("login_status", "controller not found"), S)
    ELSE Outcome(OmOk("login_status", <<>>, <<>>), S)

\* create_app.list_clients; page and size are the integers of currentPage and
\* currentPageSize, -1 stands for a text int() rejects
OmListClientsRoute(S, req, in) ==
    LET err == RequireControllerSite(req.controller_id, req.site)
        items == RuntimeClients(S.clients, in.elapsed)
        shown == IF req.filters_active = "true"
                 THEN SelectSeq(items, LAMBDA item : Truthy(FieldOf(item, "active")))
                 ELSE items
    IN IF err # "" THEN Outcome(OmNotFound("list_clients", err), S)
       ELSE IF req.page = -1 \/ req.size = -1 THEN Outcome(OmServerError("list_clients"), S)
       ELSE Outcome(OmOk("list_clients", <<>>, Paginate(shown, req.page, req.size)), S)

\* create_app.get_client
OmGetClientRoute(S, req, in) ==
    LET err == RequireControllerSite(req.controller_id, req.site)
        ensured == EnsureClient(S, req.mac, in.elapsed)
    IN IF err # "" THEN Outcome(OmNotFound("get_client", err), S)
       ELSE Outcome(OmOk("get_client", <<>>,
                        <<RuntimeClient(ensured.clients[EnsuredIndex(S, req.mac)], in.elapsed)>>),
                    ensured)

\* create_app.patch_client: request.json(), then _ensure_client, then
\* client.update(payload), which raises on a scalar and takes an empty array
\* for no keys
OmPatchClientRoute(S, req, in) ==
    LET err == RequireControllerSite(req.controller_id, req.site)
        ensured == EnsureClient(S, req.mac, in.elapsed)
        k == EnsuredIndex(S, req.mac)
        patched == [ensured EXCEPT !.clients[k].fields =
                       Updated(ensured.clients[k].fields, req.body.fields)]
    IN IF err # "" THEN Outcome(OmNotFound("patch_client", err), S)
       ELSE IF req.body.kind = "malformed" THEN Outcome(OmServerError("patch_client"), S)
       ELSE IF req.body.kind = "scalar" THEN Outcome(OmServerError("patch_client"), ensured)
       ELSE Outcome(OmOk("patch_client", <<>>, <<patched.clients[k]>>), patched)

----------------------------------------------------------------------------
(* Omada: devices, details and ports.  A device, a detail and a port are
   functions from their keys to JSON values; a detail map is a function from
   normalized addresses to details. *)

\* dict.get(key, default)
Get(record, key, default) == IF key \in DOMAIN record THEN record[key] ELSE default

\* a text as a JSON string
JsonStr(text) == "\"" \o text \o "\""

\* str.title and str.upper of the device types
TitleOf(dev_type) ==
    CASE dev_type = "gateway" -> "Gateway" [] dev_type = "switch" -> "Switch"
      [] dev_type = "ap" -> "Ap" [] OTHER -> dev_type

UpperOf(dev_type) ==
    CASE dev_type = "gateway" -> "GATEWAY" [] dev_type = "switch" -> "SWITCH"
      [] dev_type = "ap" -> "AP" [] OTHER -> dev_type

\* the JSON values int() accepts, and what it makes of them
IntTexts == {"0", "1", "2", "9", "14", "\"1\"", "\"2\"", "true", "false"}

IntOf(value) ==
    CASE value \in {"0", "false"} -> 0
      [] value \in {"1", "\"1\"", "true"} -> 1
      [] value \in {"2", "\"2\""} -> 2
      [] value = "9" -> 9
      [] value = "14" -> 14
      [] OTHER -> -1

\* int(value or default) as a JSON number
IntOr(value, default) == IF Truthy(value) THEN ToString(IntOf(value)) ELSE default

OmGatewayMac == <<"AA", "-", "0B", "-", "10">>

OmSwitchMac == <<"AA", "-", "0B", "-", "20">>

OmApMac == <<"AA", "-", "0B", "-", "30">>

\* the devices of the fixture
OmDevicesBaseline ==
    <<[mac |-> OmGatewayMac, type |-> "\"gateway\"", name |-> "\"gw\"",
       model |-> "\"ER605\"", ip |-> "\"10.50.0.1\"", status |-> "14"],
      [mac |-> OmSwitchMac, type |-> "\"switch\"", name |-> "\"sw\"",
       model |-> "\"SG2008\"", ip |-> "\"10.50.0.2\"", status |-> "14"],
      [mac |-> OmApMac, type |-> "\"ap\"", name |-> "\"ap\"",
       model |-> "\"EAP610\"", ip |-> "\"10.50.0.3\"", status |-> "14"]>>

\* the gateway port records of the fixture
OmWanPort == [port |-> "1", mode |-> "0", internetState |-> "1"]

OmWanLanPort ==
    [port |-> "2", mode |-> "1", internetState |-> "0",
     wanPortIpv6Config |-> [enable |-> "0", internetState |-> "0"]]

\* gateway_details, switch_details and ap_details of the fixture, as
\* _index_by_mac keys them
OmGatewayDetailsBaseline ==
    NormalizeMac(OmGatewayMac) :>
        [mac |-> OmGatewayMac, type |-> "\"gateway\"", name |-> "\"gw\"",
         portStats |-> <<OmWanPort, OmWanLanPort>>,
         portConfigs |-> <<[port |-> "1", portStat |-> OmWanPort],
                           [port |-> "2", portStat |-> OmWanLanPort]>>]

OmSwitchDetailsBaseline ==
    NormalizeMac(OmSwitchMac) :>
        [mac |-> OmSwitchMac, type |-> "\"switch\"", name |-> "\"sw\"",
         devCap |-> "{\"poeSupport\":true}"]

OmApDetailsBaseline ==
    NormalizeMac(OmApMac) :>
        [mac |-> OmApMac, type |-> "\"ap\"", name |-> "\"ap\"", lanPortSettings |-> "[]"]

\* switch_ports of the fixture; the first port has no poe field
OmSwitchPortsBaseline ==
    NormalizeMac(OmSwitchMac) :>
        <<[port |-> "1", name |-> "\"Port1\"", profileId |-> "\"p1\""],
          [port |-> "2", name |-> "\"Port2\"", profileId |-> "\"p1\"", poe |-> "true"]>>

\* index of the first device whose normalized mac is norm, 0 if none
FindDeviceIndex(devices, norm) ==
    LET hits == {j \in 1..Len(devices) :
                    NormalizeMac(Get(devices[j], "mac", <<>>)) = norm}
    IN IF hits = {} THEN 0 ELSE Least(hits)

\* OmadaControllerMock._find_device: the device, or NoFields for None
FindDevice(devices, mac) ==
    IF FindDeviceIndex(devices, NormalizeMac(mac)) = 0 THEN NoFields
    ELSE devices[FindDeviceIndex(devices, NormalizeMac(mac))]

\* the device _ensure_device_of_type appends for an unknown mac
NewDevice(devices, mac, dev_type) ==
    LET same == {j \in 1..Len(devices) : Get(devices[j], "type", "null") = JsonStr(dev_type)}
        template == IF same = {} THEN NoFields ELSE devices[Least(same)]
    IN Updated(template,
           [mac |-> UpperMac(mac),
            type |-> JsonStr(dev_type),
            name |-> IF Truthy(Get(template, "name", "null")) THEN template.name
                     ELSE JsonStr("Virtual " \o TitleOf(dev_type)),
            model |-> IF Truthy(Get(template, "model", "null")) THEN template.model
                      ELSE JsonStr("Virtual-" \o UpperOf(dev_type)),
            showModel |-> IF Truthy(Get(template, "showModel", "null")) THEN template.showModel
                          ELSE JsonStr("Virtual-" \o UpperOf(dev_type)),
            compoundModel |-> IF Truthy(Get(template, "compoundModel", "null"))
                              THEN template.compoundModel
                              ELSE JsonStr("Virtual " \o TitleOf(dev_type)),
            ip |-> IF Truthy(Get(template, "ip", "null")) THEN template.ip
                   ELSE "\"10.50.0.250\"",
            status |-> IntOr(Get(template, "status", "1"), "1"),
            statusCategory |-> IntOr(Get(template, "statusCategory", "0"), "0"),
            needUpgrade |-> IF Truthy(Get(template, "needUpgrade", "false")) THEN "true"
                            ELSE "false"])

EnsureDeviceEvicting(devices, mac, dev_type) ==
    LET k == FindDeviceIndex(devices, NormalizeMac(mac))
    IN IF k # 0
       THEN [devices EXCEPT ![k] = Updated(devices[k], [type |-> JsonStr(dev_type)])]
       ELSE Append([devices EXCEPT ![1] = NewDevice(devices, mac, dev_type)],
                   NewDevice(devices, mac, dev_type))

\* OmadaControllerMock._ensure_device_of_type: the devices after it; the type
\* of an existing device is overwritten with dev_type
EnsureDeviceOfType(devices, mac, dev_type) ==
    LET k == FindDeviceIndex(devices, NormalizeMac(mac))
    IN IF k # 0
       THEN [devices EXCEPT ![k] = Updated(devices[k], [type |-> JsonStr(dev_type)])]
       ELSE Append(devices, NewDevice(devices, mac, dev_type))

\* the index in the devices after _ensure_device_of_type of the device it returns
EnsuredDeviceIndex(devices, mac) ==
    IF FindDeviceIndex(devices, NormalizeMac(mac)) # 0
    THEN FindDeviceIndex(devices, NormalizeMac(mac))
    ELSE Len(devices) + 1

\* dict.setdefault for each key of defaults
SetDefaults(record, defaults) == record @@ defaults

\* the device a detail is copied from
DetailSource(S, mac, dev_type) ==
    EnsureDeviceOfType(S.devices, mac, dev_type)[EnsuredDeviceIndex(S.devices, mac)]

\* OmadaControllerMock._get_gateway_detail: the state after it
GetGatewayDetail(S, mac) ==
    IF NormalizeMac(mac) \in DOMAIN S.gateway_details THEN S
    ELSE [S EXCEPT
            !.devices = EnsureDeviceOfType(S.devices, mac, "gateway"),
            !.gateway_details =
                (NormalizeMac(mac) :>
                    SetDefaults(DetailSource(S, mac, "gateway"),
                                [portStats |-> <<>>, portConfigs |-> <<>>]))
                @@ S.gateway_details]

\* OmadaControllerMock._get_switch_detail: the state after it
GetSwitchDetail(S, mac) ==
    IF NormalizeMac(mac) \in DOMAIN S.switch_details THEN S
    ELSE [S EXCEPT
            !.devices = EnsureDeviceOfType(S.devices, mac, "switch"),
            !.switch_details =
                (NormalizeMac(mac) :>
                    SetDefaults(DetailSource(S, mac, "switch"),
                                [devCap |-> "{\"poeSupport\":false,\"poePortNum\":0,\"supportBt\":false}"]))
                @@ S.switch_details,
            !.switch_ports = S.switch_ports @@ (NormalizeMac(mac) :> <<>>)]

\* OmadaControllerMock._get_ap_detail: the state after it
GetApDetail(S, mac) ==
    IF NormalizeMac(mac) \in DOMAIN S.ap_details THEN S
    ELSE [S EXCEPT
            !.devices = EnsureDeviceOfType(S.devices, mac, "ap"),
            !.ap_details =
                (NormalizeMac(mac) :>
                    SetDefaults(DetailSource(S, mac, "ap"), [lanPortSettings |-> "[]"]))
                @@ S.ap_details]

SwitchPortIndexCased(switch_ports, mac, port_id) ==
    LET ports == Get(switch_ports, NormalizeMacCased(mac), <<>>)
        hits == {j \in 1..Len(ports) : IntOf(Get(ports[j], "port", "-1")) = port_id}
    IN IF hits = {} THEN 0 ELSE Least(hits)

\* OmadaControllerMock._get_switch_port: the index of the port in the port
\* list of the switch, 0 for KeyError
SwitchPortIndex(switch_ports, mac, port_id) ==
    LET ports == Get(switch_ports, NormalizeMac(mac), <<>>)
        hits == {j \in 1..Len(ports) : IntOf(Get(ports[j], "port", "-1")) = port_id}
    IN IF hits = {} THEN 0 ELSE Least(hits)

\* the keys patch_switch_port copies from the payload
WritablePortFields ==
    {"name", "profileId", "linkSpeed", "duplex", "profileOverrideEnable", "tagIds",
     "nativeNetworkId", "networkTagsSetting", "tagNetworkIds", "untagNetworkIds",
     "voiceNetworkEnable", "voiceNetworkId", "operation", "bandWidthCtrlType", "poe",
     "dot1x", "lldpMedEnable", "loopbackDetectEnable", "spanningTreeEnable",
     "portIsolationEnable", "flowControlEnable", "eeeEnable",
     "loopbackDetectVlanBasedEnable"}

\* the part of a payload whose keys lie in keys
Restricted(fields, keys) == [key \in DOMAIN fields \cap keys |-> fields[key]]

\* OmadaControllerMock._message
OmMessage(by, msg) == OmResponse(200, 0, msg, by, <<>>, <<>>)

\* the answer to a command the handler does not know
OmUnsupportedAction(by) == OmResponse(400, -30107, "unsupported action", by, <<>>, <<>>)

\* the answer for a port that is not there
OmPortNotFound(by, msg) == OmResponse(404, -30106, msg, by, <<>>, <<>>)

\* OmadaControllerMock._runtime_known_clients; of two runtime clients with
\* one normalized mac the later one decides
RuntimeKnownClients(known_clients, runtime_clients, now) ==
    [j \in 1..Len(known_clients) |->
        LET hits == {k \in 1..Len(runtime_clients) :
                        NormalizeMac(runtime_clients[k].fields.mac)
                            = NormalizeMac(Get(known_clients[j].fields, "mac", <<>>))}
            last == CHOOSE k \in hits : \A other \in hits : other <= k
        IN IF hits = {} THEN known_clients[j]
           ELSE OmRecord(
                    Updated(known_clients[j].fields,
                        [lastSeen |-> IF Truthy(FieldOf(runtime_clients[last], "active"))
                                      THEN ToString(now)
                                      ELSE ToString(now - 15 * 60 * 1000)]),
                    known_clients[j].flap)]

\* create_app.list_known_clients
OmListKnownClientsRoute(S, req, in) ==
    LET err == RequireControllerSite(req.controller_id, req.site)
    IN IF err # "" THEN Outcome(OmNotFound("list_known_clients", err), S)
       ELSE IF req.page = -1 \/ req.size = -1
       THEN Outcome(OmServerError("list_known_clients"), S)
       ELSE Outcome(OmOk("list_known_clients", <<>>,
                        Paginate(RuntimeKnownClients(S.known_clients,
                                     RuntimeClients(S.clients, in.elapsed), in.elapsed),
                                 req.page, req.size)), S)

\* create_app.list_devices
OmListDevicesRoute(S, req) ==
    LET err == RequireControllerSite(req.controller_id, req.site)
    IN IF err # "" THEN Outcome(OmNotFound("list_devices", err), S)
       ELSE Outcome(OmOk("list_devices", <<>>, S.devices), S)

\* get_gateway, get_eap and get_switch after the detail lookup left the state
\* found: the copy of the detail kept in the map named details
DetailRead(S, req, found, details) ==
    LET err == RequireControllerSite(req.controller_id, req.site)
    IN IF err # "" THEN Outcome(OmNotFound(req.route, err), S)
       ELSE Outcome(OmOk(req.route, <<>>, <<found[details][NormalizeMac(req.mac)]>>), found)

\* patch_gateway, patch_eap and patch_switch: request.json(), the detail
\* lookup, then detail.update(payload)
DetailPatch(S, req, found, details) ==
    LET err == RequireControllerSite(req.controller_id, req.site)
        patched == [found EXCEPT ![details][NormalizeMac(req.mac)] =
                       Updated(@, req.body.fields)]
    IN IF err # "" THEN Outcome(OmNotFound(req.route, err), S)
       ELSE IF req.body.kind = "malformed" THEN Outcome(OmServerError(req.route), S)
       ELSE IF req.body.kind = "scalar" THEN Outcome(OmServerError(req.route), found)
       ELSE Outcome(OmOk(req.route, <<>>, <<patched[details][NormalizeMac(req.mac)]>>),
                    patched)

\* create_app.get_switch_ports
OmGetSwitchPortsRoute(S, req) ==
    LET err == RequireControllerSite(req.controller_id, req.site)
        found == GetSwitchDetail(S, req.mac)
        listed == [found EXCEPT !.switch_ports = @ @@ (NormalizeMac(req.mac) :> <<>>)]
    IN IF err # "" THEN Outcome(OmNotFound("get_switch_ports", err), S)
       ELSE Outcome(OmOk("get_switch_ports", <<>>,
                        listed.switch_ports[NormalizeMac(req.mac)]), listed)

\* create_app.get_switch_port
OmGetSwitchPortRoute(S, req) ==
    LET err == RequireControllerSite(req.controller_id, req.site)
        k == SwitchPortIndex(S.switch_ports, req.mac, req.port_id)
    IN IF err # "" THEN Outcome(OmNotFound("get_switch_port", err), S)
       ELSE IF k = 0
       THEN Outcome(OmPortNotFound("get_switch_port", "switch port not found"), S)
       ELSE Outcome(OmOk("get_switch_port", <<>>,
                        <<S.switch_ports[NormalizeMac(req.mac)][k]>>), S)

\* the port after the loop over the writable keys
PatchedPortAnyField(port, fields) == Updated(port, fields)

PatchedPort(port, fields) == Updated(port, Restricted(fields, WritablePortFields))

\* create_app.patch_switch_port; "key in payload" raises on a JSON number and
\* finds no key in an empty array
OmPatchSwitchPortRoute(S, req) ==
    LET err == RequireControllerSite(req.controller_id, req.site)
        norm == NormalizeMac(req.mac)
        k == SwitchPortIndex(S.switch_ports, req.mac, req.port_id)
        patched == [S EXCEPT !.switch_ports[norm][k] = PatchedPort(@, req.body.fields)]
    IN IF err # "" THEN Outcome(OmNotFound("patch_switch_port", err), S)
       ELSE IF req.body.kind = "malformed" THEN Outcome(OmServerError("patch_switch_port"), S)
       ELSE IF k = 0
       THEN Outcome(OmPortNotFound("patch_switch_port", "switch port not found"), S)
       ELSE IF req.body.kind = "scalar" THEN Outcome(OmServerError("patch_switch_port"), S)
       ELSE Outcome(OmOk("patch_switch_port", <<>>, <<patched.switch_ports[norm][k]>>),
                    patched)

\* get_firmware, get_profile_summary, get_wlans, get_wlan_ssids, rf_planning,
\* rf_planning_result and rf_optimization: the site check and a fixed answer
OmStaticRoute(S, req) ==
    LET err == RequireControllerSite(req.controller_id, req.site)
    IN IF err # "" THEN Outcome(OmNotFound(req.route, err), S)
       ELSE Outcome(OmOk(req.route, <<>>, <<>>), S)

\* create_app.client_command
OmClientCommandRoute(S, req, in) ==
    LET err == RequireControllerSite(req.controller_id, req.site)
        ensured == EnsureClient(S, req.mac, in.elapsed)
        k == EnsuredIndex(S, req.mac)
        marked == [ensured EXCEPT !.clients[k].fields =
                      Updated(@, [blocked |-> IF req.action = "block" THEN "true"
                                              ELSE "false"])]
    IN IF err # "" THEN Outcome(OmNotFound("client_command", err), S)
       ELSE IF req.action \notin {"block", "unblock", "reconnect"}
       THEN Outcome(OmUnsupportedAction("client_command"), S)
       ELSE Outcome(OmMessage("client_command", "client " \o req.action),
                    IF req.action = "reconnect" THEN ensured ELSE marked)

\* create_app.device_command
OmDeviceCommandRoute(S, req) ==
    LET err == RequireControllerSite(req.controller_id, req.site)
    IN IF err # "" THEN Outcome(OmNotFound("device_command", err), S)
       ELSE IF req.action \notin {"reboot", "onlineUpgrade"}
       THEN Outcome(OmUnsupportedAction("device_command"), S)
       ELSE Outcome(OmMessage("device_command", "device " \o req.action), S)

\* index of the first port of portStats whose number is port_number, 0 if none
GatewayPortIndex(detail, port_number) ==
    LET ports == Get(detail, "portStats", <<>>)
        hits == {j \in 1..Len(ports) : IntOf(Get(ports[j], "port", "-1")) = port_number}
    IN IF hits = {} THEN 0 ELSE Least(hits)

GatewayPortToggled(port, action, mode_value) ==
    LET flipped == IF Get(port, "internetState", "") = ToString(mode_value)
                   THEN 1 - mode_value ELSE mode_value
    IN IF action = "internetState"
       THEN Updated(port, [internetState |-> ToString(flipped)])
       ELSE Updated(port,
                [wanPortIpv6Config |->
                    Updated(Get(port, "wanPortIpv6Config", NoFields),
                            [enable |-> "1", internetState |-> ToString(mode_value)])])

\* the port record after the action
GatewayPortAfter(port, action, mode_value) ==
    IF action = "internetState"
    THEN Updated(port, [internetState |-> ToString(mode_value)])
    ELSE Updated(port,
             [wanPortIpv6Config |->
                 Updated(Get(port, "wanPortIpv6Config", NoFields),
                         [enable |-> "1", internetState |-> ToString(mode_value)])])

\* the result object of the action
GatewayResult(port, action, port_number, mode_value) ==
    IF action = "internetState"
    THEN [port |-> ToString(port_number), mode |-> Get(port, "mode", "0"),
          wanConnected |-> BoolJson(mode_value = 1)]
    ELSE [port |-> ToString(port_number), mode |-> Get(port, "mode", "0"),
          wanConnected |-> BoolJson(Truthy(Get(port, "internetState", "0"))),
          wanIpv6Enabled |-> "true", ipv6WanConnected |-> BoolJson(mode_value = 1)]

GatewayDetailStale(detail, k, action, port_number, mode_value) ==
    LET port == GatewayPortAfter(detail.portStats[k], action, mode_value)
        cfgs == Get(detail, "portConfigs", <<>>)
    IN Updated(detail,
           IF "portConfigs" \in DOMAIN detail
           THEN [portStats |-> [detail.portStats EXCEPT ![k] = port],
                 portConfigs |->
                     [j \in 1..Len(cfgs) |->
                         IF IntOf(Get(cfgs[j], "port", "-1")) = port_number
                         THEN Updated(cfgs[j], [portStat |-> detail.portStats[k]])
                         ELSE cfgs[j]]]
           ELSE [portStats |-> [detail.portStats EXCEPT ![k] = port]])

\* the detail after the action on its k-th port: the port is updated and
\* every portConfigs entry of that number takes a copy of it
GatewayDetailAfter(detail, k, action, port_number, mode_value) ==
    LET port == GatewayPortAfter(detail.portStats[k], action, mode_value)
        cfgs == Get(detail, "portConfigs", <<>>)
    IN Updated(detail,
           IF "portConfigs" \in DOMAIN detail
           THEN [portStats |-> [detail.portStats EXCEPT ![k] = port],
                 portConfigs |->
                     [j \in 1..Len(cfgs) |->
                         IF IntOf(Get(cfgs[j], "port", "-1")) = port_number
                         THEN Updated(cfgs[j], [portStat |-> port]) ELSE cfgs[j]]]
           ELSE [portStats |-> [detail.portStats EXCEPT ![k] = port]])

\* create_app.gateway_command: a body request.json() rejects counts as {};
\* the detail lookup comes before the payload and the action are looked at
OmGatewayCommandRoute(S, req) ==
    LET err == RequireControllerSite(req.controller_id, req.site)
        norm == NormalizeMac(req.mac)
        fields == req.body.fields
        found == GetGatewayDetail(S, req.mac)
        port_id == Get(fields, "portId", "1")
        operation == Get(fields, "operation", "1")
        port_number == IntOf(port_id)
        mode_value == IF IntOf(operation) = 1 THEN 1 ELSE 0
        k == GatewayPortIndex(found.gateway_details[norm], port_number)
    IN IF err # "" THEN Outcome(OmNotFound("gateway_command", err), S)
       ELSE IF req.body.kind \in {"array", "scalar"}
            \/ port_id \notin IntTexts \/ operation \notin IntTexts
       THEN Outcome(OmServerError("gateway_command"), found)
       ELSE IF req.action \notin {"internetState", "ipv6State"}
       THEN Outcome(OmUnsupportedAction("gateway_command"), found)
       ELSE IF k = 0
       THEN Outcome(OmPortNotFound("gateway_command", "gateway port not found"), found)
       ELSE Outcome(
                OmOk("gateway_command", <<>>,
                     <<GatewayResult(
                           GatewayPortAfter(found.gateway_details[norm].portStats[k],
                                            req.action, mode_value),
                           req.action, port_number, mode_value)>>),
                [found EXCEPT !.gateway_details[norm] =
                    GatewayDetailAfter(@, k, req.action, port_number, mode_value)])

\* the handler of the route of req
OmHandle(S, req, in) ==
    CASE req.route = "login" -> OmLoginRoute(S, req, in)
      [] req.route = "login_alias" ->
           OmLoginRoute(S, [req EXCEPT !.controller_id = OmControllerId], in)
      [] req.route = "login_status" -> OmLoginStatusRoute(S, req)
      [] req.route = "list_clients" -> OmListClientsRoute(S, req, in)
      [] req.route = "get_client" -> OmGetClientRoute(S, req, in)
      [] req.route = "patch_client" -> OmPatchClientRoute(S, req, in)
      [] req.route = "list_known_clients" -> OmListKnownClientsRoute(S, req, in)
      [] req.route = "list_devices" -> OmListDevicesRoute(S, req)
      [] req.route = "get_gateway" ->
           DetailRead(S, req, GetGatewayDetail(S, req.mac), "gateway_details")
      [] req.route = "patch_gateway" ->
           DetailPatch(S, req, GetGatewayDetail(S, req.mac), "gateway_details")
      [] req.route = "get_eap" -> DetailRead(S, req, GetApDetail(S, req.mac), "ap_details")
      [] req.route = "patch_eap" -> DetailPatch(S, req, GetApDetail(S, req.mac), "ap_details")
      [] req.route = "get_switch" ->
           DetailRead(S, req, GetSwitchDetail(S, req.mac), "switch_details")
      [] req.route = "patch_switch" ->
           DetailPatch(S, req, GetSwitchDetail(S, req.mac), "switch_details")
      [] req.route = "get_switch_ports" -> OmGetSwitchPortsRoute(S, req)
      [] req.route = "get_switch_port" -> OmGetSwitchPortRoute(S, req)
      [] req.route \in {"patch_switch_port", "openapi_switch_patch"} ->
           OmPatchSwitchPortRoute(S, req)
      [] req.route = "get_firmware" -> OmStaticRoute(S, req)
      [] req.route = "client_command" -> OmClientCommandRoute(S, req, in)
      [] req.route = "device_command" -> OmDeviceCommandRoute(S, req)
      [] req.route = "gateway_command" -> OmGatewayCommandRoute(S, req)

----------------------------------------------------------------------------
(* Omada: the requests the model steps with, initial state and actions *)

\* the token of the k-th login (draw 2k - 1; draw 2k is the session cookie)
OmTokenOfLogin(k) == TokenHex(16, 2 * k - 1)

OmObject(fields) == OmBody("object", fields)

NoBody == OmBody("malformed", NoFields)

OmLoginBodies ==
    {OmObject([username |-> OmUsername, password |-> OmPassword]),
     OmObject([username |-> OmUsername, password |-> "\"wrong\""]),
     OmObject([username |-> "\"root\"", password |-> OmPassword]),
     OmObject([username |-> OmUsername]), OmObject(NoFields),
     OmBody("array", NoFields), OmBody("scalar", NoFields), NoBody}

OmControllerIds == {OmControllerId, "other"}

OmSites == {OmSiteId, "Default"}

OmStepTokens == {<<>>, TokenHex(16, 2)} \cup {OmTokenOfLogin(k) : k \in 1..MaxLogins}

\* spellings of the address of the first client, and an address the fixture
\* does not hold
OmStepMacs ==
    {<<"AA", "-", "0B", "-", "01">>, <<"aa", ":", "0b", ":", "01">>, <<"AA", "-", "0B", "-", "07">>}

OmPatchBodies ==
    {OmObject([name |-> "\"A\""]), OmObject([name |-> "\"B\""]),
     OmObject([block |-> "true"]), OmObject([mac |-> <<"AA", "-", "0B", "-", "09">>]),
     OmObject(NoFields),
     OmBody("array", NoFields), OmBody("scalar", NoFields), NoBody}

OmLoginRequests ==
    {OmRequest(route, c, "", <<>>, token, body, "", 1, 100) :
        route \in {"login", "login_alias"}, c \in OmControllerIds,
        token \in {<<>>}, body \in OmLoginBodies}

OmLoginStatusRequests ==
    {OmRequest("login_status", c, "", <<>>, token, NoBody, "", 1, 100) :
        c \in OmControllerIds, token \in OmStepTokens}

\* the controller and site of a request: the fixture's, a wrong controller,
\* a wrong site
OmScopes == {<<OmControllerId, OmSiteId>>, <<"other", OmSiteId>>, <<OmControllerId, "Default">>}

\* in the scope of the fixture every choice, in a wrong scope one request
OmListRequests ==
    {OmRequest("list_clients", OmControllerId, OmSiteId, <<>>, token, NoBody, f, page, size) :
        token \in {<<>>, OmTokenOfLogin(1)}, f \in {"", "true"}, page \in {1, 2, -1},
        size \in {100, 1}}
    \cup {OmRequest("list_clients", scope[1], scope[2], <<>>, <<>>, NoBody, "", 1, 100) :
            scope \in OmScopes}

OmClientRequests(route, bodies) ==
    {OmRequest(route, OmControllerId, OmSiteId, mac, token, body, "", 1, 100) :
        mac \in OmStepMacs, token \in {<<>>, OmTokenOfLogin(1)}, body \in bodies}
    \cup {OmRequest(route, scope[1], scope[2], <<"AA", "-", "0B", "-", "07">>, <<>>,
                    OmObject([name |-> "\"A\""]), "", 1, 100) : scope \in OmScopes}

OmGetRequests == OmClientRequests("get_client", {NoBody})

OmPatchRequests == OmClientRequests("patch_client", OmPatchBodies)

OmDeviceRequest(route, scope, mac, port_id, action, body) ==
    [route |-> route, controller_id |-> scope[1], site |-> scope[2], mac |-> mac,
     token |-> <<>>, body |-> body, port_id |-> port_id, action |-> action,
     filters_active |-> "", page |-> 1, size |-> 100]

\* an address no record of the fixture has, in two spellings
OmUnknownMac == <<"AA", "-", "0B", "-", "77">>

OmUnknownMacLower == <<"aa", ":", "0b", ":", "77">>

\* the addresses device requests carry
OmDeviceMacs ==
    {OmGatewayMac, <<"aa", ":", "0b", ":", "10">>, OmSwitchMac, <<"aa", ":", "0b", ":", "20">>,
     OmApMac, OmUnknownMac, OmUnknownMacLower}

\* requests in the scope of the fixture for every choice, and one request
\* for each wrong scope
Scoped(route, macs, ports, actions, bodies) ==
    {OmDeviceRequest(route, <<OmControllerId, OmSiteId>>, mac, port, action, body) :
        mac \in macs, port \in ports, action \in actions, body \in bodies}
    \cup {OmDeviceRequest(route, scope, OmGatewayMac, 1, "", NoBody) :
            scope \in OmScopes \ {<<OmControllerId, OmSiteId>>}}

OmDetailBodies ==
    {OmObject([name |-> "\"A\""]), OmObject([mac |-> OmUnknownMac]),
     OmBody("array", NoFields), OmBody("scalar", NoFields), NoBody}

OmPortBodies ==
    {OmObject([poe |-> "false"]), OmObject([name |-> "\"Uplink\"", port |-> "9"]),
     OmObject([mac |-> "\"x\""]), OmBody("array", NoFields), OmBody("scalar", NoFields),
     NoBody}

OmGatewayBodies ==
    {OmObject([portId |-> "1", operation |-> "0"]), OmObject([portId |-> "2"]),
     OmObject([portId |-> "\"2\"", operation |-> "2"]), OmObject([portId |-> "9"]),
     OmObject([portId |-> "\"x\""]), OmObject(NoFields), OmBody("scalar", NoFields), NoBody}

OmPortIds == {1, 2, 9}

\* the requests of each route
OmRequestsOf ==
    [route \in {"list_known_clients", "list_devices", "get_firmware", "get_gateway",
                "get_eap", "get_switch", "patch_gateway", "patch_eap", "patch_switch",
                "get_switch_ports", "get_switch_port", "patch_switch_port",
                "openapi_switch_patch", "client_command", "device_command",
                "gateway_command"} |->
        CASE route \in {"list_known_clients", "list_devices", "get_firmware"} ->
               Scoped(route, {<<>>}, {1}, {""}, {NoBody})
          [] route \in {"get_gateway", "get_eap", "get_switch", "get_switch_ports"} ->
               Scoped(route, OmDeviceMacs, {1}, {""}, {NoBody})
          [] route \in {"patch_gateway", "patch_eap", "patch_switch"} ->
               Scoped(route, OmDeviceMacs, {1}, {""}, OmDetailBodies)
          [] route = "get_switch_port" ->
               Scoped(route, OmDeviceMacs, OmPortIds, {""}, {NoBody})
          [] route \in {"patch_switch_port", "openapi_switch_patch"} ->
               Scoped(route, {OmSwitchMac, <<"aa", ":", "0b", ":", "20">>, OmUnknownMac},
                      OmPortIds, {""}, OmPortBodies)
          [] route = "client_command" ->
               Scoped(route, OmStepMacs, {1}, {"block", "unblock", "reconnect", "kick"},
                      {NoBody})
          [] route = "device_command" ->
               Scoped(route, {OmGatewayMac, OmUnknownMac}, {1},
                      {"reboot", "onlineUpgrade", "adopt"}, {NoBody})
          [] route = "gateway_command" ->
               Scoped(route, {OmGatewayMac, <<"aa", ":", "0b", ":", "10">>, OmUnknownMac},
                      {1}, {"internetState", "ipv6State", "reboot"}, OmGatewayBodies)]

\* the clock of a request, in milliseconds
OmTimes == {1000, 1500, 2000}

OmNow ==
    OmState(om_tokens, om_clients, om_known_clients, om_devices, om_gateway_details,
            om_switch_details, om_ap_details, om_switch_ports)

OmInputs == {Inputs(om_rng + 1, om_rng + 2, <<>>, now, 100, 100) : now \in OmTimes}

\* the inputs of a handler that does not read the clock
OmPlainInputs == {Inputs(om_rng + 1, om_rng + 2, <<>>, 1000, 100, 100)}

\* the records of a state, the tokens left out
OmRecords(S) == [S EXCEPT !.tokens = {}]

\* OmadaControllerMock.__init__
OmInit ==
    /\ om_rng = 0
    /\ om_tokens = {}
    /\ om_clients = OmClientsBaseline
    /\ om_known_clients = OmKnownClientsBaseline
    /\ om_devices = OmDevicesBaseline
    /\ om_gateway_details = OmGatewayDetailsBaseline
    /\ om_switch_details = OmSwitchDetailsBaseline
    /\ om_ap_details = OmApDetailsBaseline
    /\ om_switch_ports = OmSwitchPortsBaseline
    /\ om_writes = 0

\* the instance takes the state after: a request that changes a record
\* counts as a write
OmTake(after) ==
    /\ after.tokens # om_tokens => Cardinality(om_tokens) < MaxLogins
    /\ OmRecords(after) # OmRecords(OmNow) => om_writes < MaxWrites
    /\ om_writes' = IF OmRecords(after) # OmRecords(OmNow) THEN om_writes + 1
                    ELSE om_writes
    /\ om_tokens' = after.tokens
    /\ om_clients' = after.clients
    /\ om_known_clients' = after.known_clients
    /\ om_devices' = after.devices
    /\ om_gateway_details' = after.gateway_details
    /\ om_switch_details' = after.switch_details
    /\ om_ap_details' = after.ap_details
    /\ om_switch_ports' = after.switch_ports
    /\ om_rng' = 2 * Cardinality(after.tokens)
    /\ UNCHANGED <<decoVars, beVars, lockVars, concVars>>

\* the instance takes the state of the outcome out
OmApply(out) == \E after \in {out.state} : OmTake(after)

OmLogin ==
    \E req \in OmLoginRequests, in \in OmPlainInputs :
        /\ req.route = "login"
        /\ OmApply(OmHandle(OmNow, req, in))

OmLoginAlias ==
    \E req \in OmLoginRequests, in \in OmPlainInputs :
        /\ req.route = "login_alias"
        /\ OmApply(OmHandle(OmNow, req, in))

OmLoginStatus ==
    \E req \in OmLoginStatusRequests, in \in OmPlainInputs :
        /\ req.route = "login_status"
        /\ OmApply(OmHandle(OmNow, req, in))

OmListClients ==
    \E req \in OmListRequests, in \in OmInputs :
        /\ req.route = "list_clients"
        /\ OmApply(OmHandle(OmNow, req, in))

OmGetClient ==
    \E req \in OmGetRequests, in \in OmInputs :
        /\ req.route = "get_client"
        /\ OmApply(OmHandle(OmNow, req, in))

OmPatchClient ==
    \E req \in OmPatchRequests, in \in OmInputs :
        /\ req.route = "patch_client"
        /\ OmApply(OmHandle(OmNow, req, in))

OmListKnownClients ==
    \E req \in OmRequestsOf["list_known_clients"], in \in OmInputs :
        /\ req.route = "list_known_clients"
        /\ OmApply(OmHandle(OmNow, req, in))

OmListDevices ==
    \E req \in OmRequestsOf["list_devices"], in \in OmPlainInputs :
        /\ req.route = "list_devices"
        /\ OmApply(OmHandle(OmNow, req, in))

OmGetFirmware ==
    \E req \in OmRequestsOf["get_firmware"], in \in OmPlainInputs :
        /\ req.route = "get_firmware"
        /\ OmApply(OmHandle(OmNow, req, in))

OmGetGateway ==
    \E req \in OmRequestsOf["get_gateway"], in \in OmPlainInputs :
        /\ req.route = "get_gateway"
        /\ OmApply(OmHandle(OmNow, req, in))

OmPatchGateway ==
    \E req \in OmRequestsOf["patch_gateway"], in \in OmPlainInputs :
        /\ req.route = "patch_gateway"
        /\ OmApply(OmHandle(OmNow, req, in))

OmGetEap ==
    \E req \in OmRequestsOf["get_eap"], in \in OmPlainInputs :
        /\ req.route = "get_eap"
        /\ OmApply(OmHandle(OmNow, req, in))

OmPatchEap ==
    \E req \in OmRequestsOf["patch_eap"], in \in OmPlainInputs :
        /\ req.route = "patch_eap"
        /\ OmApply(OmHandle(OmNow, req, in))

OmGetSwitch ==
    \E req \in OmRequestsOf["get_switch"], in \in OmPlainInputs :
        /\ req.route = "get_switch"
        /\ OmApply(OmHandle(OmNow, req, in))

OmPatchSwitch ==
    \E req \in OmRequestsOf["patch_switch"], in \in OmPlainInputs :
        /\ req.route = "patch_switch"
        /\ OmApply(OmHandle(OmNow, req, in))

OmGetSwitchPorts ==
    \E req \in OmRequestsOf["get_switch_ports"], in \in OmPlainInputs :
        /\ req.route = "get_switch_ports"
        /\ OmApply(OmHandle(OmNow, req, in))

OmGetSwitchPort ==
    \E req \in OmRequestsOf["get_switch_port"], in \in OmPlainInputs :
        /\ req.route = "get_switch_port"
        /\ OmApply(OmHandle(OmNow, req, in))

OmPatchSwitchPort ==
    \E req \in OmRequestsOf["patch_switch_port"], in \in OmPlainInputs :
        /\ req.route = "patch_switch_port"
        /\ OmApply(OmHandle(OmNow, req, in))

OmOpenapiSwitchPatch ==
    \E req \in OmRequestsOf["openapi_switch_patch"], in \in OmPlainInputs :
        /\ req.route = "openapi_switch_patch"
        /\ OmApply(OmHandle(OmNow, req, in))

OmClientCommand ==
    \E req \in OmRequestsOf["client_command"], in \in OmInputs :
        /\ req.route = "client_command"
        /\ OmApply(OmHandle(OmNow, req, in))

OmDeviceCommand ==
    \E req \in OmRequestsOf["device_command"], in \in OmPlainInputs :
        /\ req.route = "device_command"
        /\ OmApply(OmHandle(OmNow, req, in))

OmGatewayCommand ==
    \E req \in OmRequestsOf["gateway_command"], in \in OmPlainInputs :
        /\ req.route = "gateway_command"
        /\ OmApply(OmHandle(OmNow, req, in))

OmNext ==
    \/ OmLogin \/ OmLoginAlias \/ OmLoginStatus \/ OmListClients \/ OmGetClient
    \/ OmPatchClient \/ OmListKnownClients \/ OmListDevices \/ OmGetFirmware
    \/ OmGetGateway \/ OmPatchGateway \/ OmGetEap \/ OmPatchEap \/ OmGetSwitch
    \/ OmPatchSwitch \/ OmGetSwitchPorts \/ OmGetSwitchPort \/ OmPatchSwitchPort
    \/ OmOpenapiSwitchPatch \/ OmClientCommand \/ OmDeviceCommand \/ OmGatewayCommand

----------------------------------------------------------------------------
(* Specifications *)

----------------------------------------------------------------------------
(* run.py: main and _acquire_modem_lock *)

\* the processes; a process's pid is its number
Processes == 1..NumProcesses

\* the state file: absent, or a JSON object with a pid
NoFile == [kind |-> "absent", pid |-> 0]

LockState(pid) == [kind |-> "json", pid |-> pid]

\* existing = None
NoExisting == [kind |-> "none", pid |-> 0]

\* _is_pid_running: the pid is positive and os.kill(pid, 0) finds a process;
\* a process exists from the start of main until it exits
IsPidRunning(pid) ==
    /\ pid > 0
    /\ pid \in Processes
    /\ lock_pc[pid] \notin {"idle", "refused", "exited"}

LockInit ==
    /\ lock_file = NoFile
    /\ lock_pc = [p \in Processes |-> "idle"]
    /\ lock_existing = [p \in Processes |-> NoExisting]

LockStep(p, pc, file, existing) ==
    /\ lock_pc' = [lock_pc EXCEPT ![p] = pc]
    /\ lock_file' = file
    /\ lock_existing' = [lock_existing EXCEPT ![p] = existing]
    /\ UNCHANGED <<decoVars, beVars, omVars, concVars>>

\* main starts: _acquire_modem_lock up to state_file.exists()
LockExists == \E p \in Processes :
        /\ lock_pc[p] = "idle"
        /\ LockStep(p, IF lock_file = NoFile THEN "write" ELSE "read", lock_file, NoExisting)

\* json.loads(state_file.read_text()); a file unlinked since the test raises,
\* and existing stays None
LockRead == \E p \in Processes :
        /\ lock_pc[p] = "read"
        /\ LockStep(p, "decide", lock_file,
                    IF lock_file = NoFile THEN NoExisting ELSE lock_file)

\* the test of existing_pid: RuntimeError, which main turns into SystemExit(1)
LockDecide == \E p \in Processes :
        /\ lock_pc[p] = "decide"
        /\ LockStep(p,
                    IF /\ lock_existing[p].kind = "json"
                       /\ lock_existing[p].pid # 0
                       /\ lock_existing[p].pid # p
                       /\ IsPidRunning(lock_existing[p].pid)
                    THEN "refused" ELSE "write",
                    lock_file, lock_existing[p])

\* state_file.write_text(json.dumps(state)), atexit.register(_cleanup) and
\* the return to main, which goes on to uvicorn.run
LockWrite == \E p \in Processes :
        /\ lock_pc[p] = "write"
        /\ LockStep(p, "serving", LockState(p), lock_existing[p])

\* the process ends; _cleanup up to json.loads(state_file.read_text())
LockCleanupRead == \E p \in Processes :
        /\ lock_pc[p] = "serving"
        /\ LockStep(p, IF lock_file = NoFile THEN "exited" ELSE "cleanup", lock_file, lock_file)

\* _cleanup: unlink when the payload's pid is the process's own
LockCleanupUnlink == \E p \in Processes :
        /\ lock_pc[p] = "cleanup"
        /\ LockStep(p, "exited",
                    IF lock_existing[p].pid = p THEN NoFile ELSE lock_file,
                    lock_existing[p])

LockNext ==
    \/ LockExists \/ LockRead \/ LockDecide \/ LockWrite
    \/ LockCleanupRead \/ LockCleanupUnlink

----------------------------------------------------------------------------
(* Requests in flight at the same time.  A handler is a coroutine on one
   event loop: it runs until it awaits the body of its request, is suspended
   there while other handlers run, and after it is resumed runs to its
   return without another await. *)

\* the handlers in flight
Slots == 1..NumInFlight

\* the state the handlers of the Deco and of the Omada instance share
ConcShared == [deco |-> DecoNow, om |-> OmNow]

ConcKey == FromAscii(<<"K1">>, <<"V1">>)

\* a Deco request of the holder of the first session
ConcDecoRequest(endpoint, form, doc) ==
    Request(PathOf(StokOfLogin(1), <<endpoint>>), form, CookieOf(SysauthOfLogin(1)), NoSign,
            ClientData(ConcKey, doc))

ConcOmScope == <<OmControllerId, OmSiteId>>

\* the requests in flight are drawn from these: writes to one switch port,
\* actions on one gateway port, a patch and a read of a client the store
\* does not hold, a Deco login, a Deco wireless write and a Deco client-list
\* read
ConcRequestIds == 1..9

ConcIsDeco(n) == n >= 7

ConcOmRequest(n) ==
    CASE n = 1 -> OmDeviceRequest("patch_switch_port", ConcOmScope, OmSwitchMac, 2, "",
                                  OmObject([poe |-> "false"]))
      [] n = 2 -> OmDeviceRequest("patch_switch_port", ConcOmScope, OmSwitchMac, 2, "",
                                  OmObject([name |-> "\"Uplink\"", port |-> "9"]))
      [] n = 3 -> OmDeviceRequest("gateway_command", ConcOmScope, OmGatewayMac, 1,
                                  "internetState",
                                  OmObject([portId |-> "1", operation |-> "0"]))
      [] n = 4 -> OmDeviceRequest("gateway_command", ConcOmScope, OmGatewayMac, 1,
                                  "ipv6State", OmObject([portId |-> "1"]))
      [] n = 5 -> OmRequest("patch_client", OmControllerId, OmSiteId,
                            <<"AA", "-", "0B", "-", "07">>, <<>>,
                            OmObject([name |-> "\"A\""]), "", 1, 100)
      [] OTHER -> OmRequest("get_client", OmControllerId, OmSiteId,
                            <<"aa", ":", "0b", ":", "07">>, <<>>, NoBody, "", 1, 100)

ConcDecoPost(n) ==
    CASE n = 7 -> Request(LoginPath, "login", <<>>, GoodSign(ConcKey),
                          ClientData(ConcKey, DocLogin))
      [] n = 8 -> ConcDecoRequest("admin/wireless", "wlan", DocWrite("band5", "host", "false"))
      [] OTHER -> ConcDecoRequest("admin/client", "client_list", DocRead)

\* what the environment hands the handler of a Deco request in the state S:
\* the next draws of secrets, the draws and the clock of a client-list read
ConcDecoInputs(S) ==
    Inputs(2 * Cardinality(DOMAIN S.sessions) + 1, 2 * Cardinality(DOMAIN S.sessions) + 2,
           [mac \in DecoMacs |-> ClientDraw(0, RateDraw(0, 100), RateDraw(0, 100))],
           10, 100, 100)

ConcOmInputs(S) ==
    Inputs(2 * Cardinality(S.tokens) + 1, 2 * Cardinality(S.tokens) + 2, <<>>, 1000, 100, 100)

\* the part of the handler of request n after its await, run on the shared
\* state shared: the response and the shared state it leaves
ConcRun(shared, n) ==
    IF ConcIsDeco(n)
    THEN LET out == DecoPostAny(shared.deco, ConcDecoPost(n), ConcDecoInputs(shared.deco))
         IN Outcome(out.resp, [shared EXCEPT !.deco = out.state])
    ELSE LET out == OmHandle(shared.om, ConcOmRequest(n), ConcOmInputs(shared.om))
         IN Outcome(out.resp, [shared EXCEPT !.om = out.state])

HandlerViewAtArrival(arrival, current) == arrival

\* the shared state a handler works on: it reads mock.sessions, mock.fixture
\* and the stores only after `await request.body()` / `await request.json()`,
\* so what it sees is the state at the time it is resumed, not the state
\* at the time its request arrived
HandlerView(arrival, current) == current

ConcInit ==
    /\ conc_pc = [s \in Slots |-> "idle"]
    /\ conc_req = [s \in Slots |-> 0]
    /\ conc_seen = [s \in Slots |-> ConcShared]
    /\ conc_resp = [s \in Slots |-> <<>>]
    /\ conc_start = ConcShared

\* the instances take the shared state after
ConcTake(after) ==
    /\ sessions' = after.deco.sessions
    /\ wireless' = after.deco.wireless
    /\ client_runtime' = after.deco.client_runtime
    /\ rng' = 2 * Cardinality(DOMAIN after.deco.sessions)
    /\ om_tokens' = after.om.tokens
    /\ om_clients' = after.om.clients
    /\ om_known_clients' = after.om.known_clients
    /\ om_devices' = after.om.devices
    /\ om_gateway_details' = after.om.gateway_details
    /\ om_switch_details' = after.om.switch_details
    /\ om_ap_details' = after.om.ap_details
    /\ om_switch_ports' = after.om.switch_ports
    /\ om_rng' = 2 * Cardinality(after.om.tokens)
    /\ UNCHANGED <<decoReads, om_writes, beVars, lockVars>>

\* a request arrives and its handler runs up to the await of the body; up
\* to there it touches no shared record
ConcArrive == \E s \in Slots, n \in ConcRequestIds :
        /\ conc_pc[s] = "idle"
        /\ conc_pc' = [conc_pc EXCEPT ![s] = "reading"]
        /\ conc_req' = [conc_req EXCEPT ![s] = n]
        /\ conc_seen' = [conc_seen EXCEPT ![s] = ConcShared]
        /\ UNCHANGED <<decoVars, beVars, omVars, lockVars, conc_resp, conc_start>>

\* the body is there: the handler is resumed and runs to its return
ConcResume == \E s \in Slots :
        /\ conc_pc[s] = "reading"
        /\ \E out \in {ConcRun(HandlerView(conc_seen[s], ConcShared), conc_req[s])} :
              /\ ConcTake(out.state)
              /\ conc_resp' = [conc_resp EXCEPT ![s] = out.resp]
        /\ conc_pc' = [conc_pc EXCEPT ![s] = "done"]
        /\ UNCHANGED <<conc_req, conc_seen, conc_start>>

ConcNext == ConcArrive \/ ConcResume

----------------------------------------------------------------------------
Init == DecoInit /\ BeInit /\ OmInit /\ LockInit /\ ConcInit

SpecDeco == Init /\ [][DecoNext]_vars

SpecBe230 == Init /\ [][BeNext]_vars

SpecOmada == Init /\ [][OmNext]_vars

SpecLock == Init /\ [][LockNext]_vars

SpecConcurrent == Init /\ [][ConcNext]_vars

----------------------------------------------------------------------------
(* Deco: the requests the properties range over *)

\* what the client reads out of the decrypted login result: result.stok
ResultStok(text) ==
    IF Len(text) >= 2 /\ text[1] = LoginResultJson(<<>>)[1]
       /\ text[Len(text)] = LoginResultJson(<<>>)[2]
    THEN SubSeq(text, 2, Len(text) - 1)
    ELSE <<>>

IsHexToken(token, n) == Len(token) = n /\ \A j \in 1..n : token[j] \in HexChars

\* the login bodies a client that holds aes sends: sign carries k and i, data
\* is the login document under that key and IV
ValidLoginBodies(aes) ==
    {<<sign, ClientData(aes, DocLogin)>> : sign \in {GoodSign(aes), SplitSign(aes)}}

AllValidLoginBodies == UNION {ValidLoginBodies(aes) : aes \in ClientKeys}

\* sysauth tokens and stoks of logins up to one past the last the steps make
ProbeSysauths == {SysauthOfLogin(k) : k \in 1..(MaxLogins + 1)}

ProbeStoks == {StokOfLogin(k) : k \in 1..(MaxLogins + 1)}

\* characters a token's character may be replaced by
ReplacementChars == HexChars \cup {"g", "A", "-", ";"}

\* every text that differs from token in exactly one position
Replaced(token) ==
    {ReplaceAt(token, p, c) : p \in 1..Len(token), c \in ReplacementChars} \ {token}

\* cookies that carry no sysauth token the registry may hold
StrangerCookies ==
    {<<>>, <<"sysauth=">>, <<"other=", "a", "b">>, <<"sysauth=", "A", "B">>,
     CookieOf(UnissuedSysauth), CookieOf(SubSeq(SysauthOfLogin(1), 1, 31)),
     <<"Sysauth=">> \o SysauthOfLogin(1), CookieOf(StokOfLogin(1))}
    \cup {CookieOf(token) : token \in ProbeSysauths}

\* state tokens a path may carry besides the one of the session
StrangerStoks ==
    {<<>>, UnissuedStok, <<"deco-">>} \cup ProbeStoks
    \cup UNION {{SubSeq(stok, 1, Len(stok) - 1), stok \o <<"0">>,
                 ReplaceAt(stok, Len(stok), "g"), ReplaceAt(stok, 1, "Deco-"),
                 ReplaceAt(stok, 2, IF stok[2] = "0" THEN "1" ELSE "0")} : stok \in ProbeStoks}

\* a body that would toggle the 2.4 GHz guest network, from the client of aes
ToggleBody(aes) ==
    ClientData(aes, DocWrite("band2_4", "guest",
                             IF wireless.band2_4.guest.enable THEN "false" ELSE "true"))

\* the command requests of one sender: every (endpoint, form) pair, with no
\* body and with a toggling body
SenderRequests(cookie, stok, aes) ==
    {Request(PathOf(stok, <<c[1]>>), c[2], cookie, NoSign, data) :
        c \in DecoCommands, data \in {NoData, ToggleBody(aes)}}

\* the outcomes post_any can have for req in the current state
OutcomesOf(req) ==
    {DecoPostAny(DecoNow, req, in) : in \in ClientListInputs}

HandlerBranches ==
    {"device_list", "wan_ipv4", "performance", "wlan", "client_list", "system", "logout"}

----------------------------------------------------------------------------
(* Deco: properties *)

\* C1: a login whose sign yields k and i and whose data is the login document
\* under that key and IV adds exactly one session, keyed by a new token of 32
\* hex characters; the answer is 200, its data decrypts under the same key and
\* IV to a result whose stok is non-empty and is the stok of the new session,
\* and the cookie it sets carries the new session's token.
C1_ValidLoginMintsSession ==
    \A aes \in ClientKeys : \A body \in ValidLoginBodies(aes) :
        \A cookie \in {<<>>} \cup {CookieOf(token) : token \in DOMAIN sessions} :
            LET out == DecoPostAny(DecoNow,
                           Request(LoginPath, "login", cookie, body[1], body[2]), PlainInputs)
                minted == DOMAIN out.state.sessions \ DOMAIN sessions
                plain == DecryptB64(aes, out.resp.data)
            IN /\ Cardinality(minted) = 1
               /\ \A token \in DOMAIN sessions :
                     /\ token \in DOMAIN out.state.sessions
                     /\ out.state.sessions[token] = sessions[token]
               /\ \A token \in minted :
                     /\ IsHexToken(token, 32)
                     /\ out.state.sessions[token].sysauth = token
                     /\ out.state.sessions[token].aes = aes
                     /\ out.resp.cookie = token
                     /\ ResultStok(plain.text) = out.state.sessions[token].stok
               /\ out.resp.status = 200
               /\ plain.ok
               /\ ResultStok(plain.text) # <<>>

\* two logins have been served, one of them for the client of K2/V2
C1_Witness ==
    /\ Cardinality(DOMAIN sessions) = 2
    /\ \E token \in DOMAIN sessions :
          /\ sessions[token].aes = FromAscii(<<"K2">>, <<"V2">>)
          /\ IsHexToken(token, 32)

\* C3: a request of a session is dispatched to a command handler only when
\* the state token of its path is the session's stok; with any other state
\* token (empty, never issued, a later login's, another live session's, the
\* stok cut short, lengthened or changed in one character) the answer is 404
\* 'bad stok' and sessions, fixture and runtime stay as they are.
C3_StokMustMatch ==
    \A token \in DOMAIN sessions :
        \A stok \in StrangerStoks \cup {sessions[t].stok : t \in DOMAIN sessions} :
            \A req \in SenderRequests(CookieOf(token), stok, sessions[token].aes) :
                \A out \in OutcomesOf(req) :
                    /\ out.resp.by \in HandlerBranches => stok = sessions[token].stok
                    /\ stok # sessions[token].stok =>
                          /\ out.resp.status = 404
                          /\ out.resp.msg = "bad stok"
                          /\ out.state = DecoNow

\* two sessions are live and the fixture and the runtime have been written
C3_Witness ==
    /\ Cardinality(DOMAIN sessions) = 2
    /\ wireless # WirelessBaseline
    /\ decoReads > 0
    /\ \E token \in DOMAIN sessions :
          DecoBranch(sessions,
              Request(PathOf(sessions[token].stok, <<"admin/client">>), "client_list",
                      CookieOf(token), NoSign, NoData)) = "client_list"

\* C4: a request outside the login forms whose cookie carries no sysauth
\* token, or one the registry does not hold, is answered 403 'unauthorized'
\* and sessions, fixture and runtime stay as they are.
C4_StrangerIsUnauthorized ==
    \A cookie \in StrangerCookies :
        SearchSysauth(cookie) \notin DOMAIN sessions =>
            \A stok \in {<<>>} \cup {sessions[t].stok : t \in DOMAIN sessions} :
                \A aes \in ClientKeys :
                    \A req \in SenderRequests(cookie, stok, aes) :
                        \A out \in OutcomesOf(req) :
                            /\ out.resp.status = 403
                            /\ out.resp.error_code = 403
                            /\ out.resp.msg = "unauthorized"
                            /\ out.state = DecoNow

\* a session is live, the fixture has been written, and the token of a login
\* not made yet is presented with the live session's stok
C4_Witness ==
    /\ Cardinality(DOMAIN sessions) = 1
    /\ wireless # WirelessBaseline
    /\ \E token \in DOMAIN sessions :
          DecoBranch(sessions,
              Request(PathOf(sessions[token].stok, <<"admin/wireless">>), "wlan",
                      CookieOf(SysauthOfLogin(2)), NoSign, NoData)) = "unauthorized"

\* C9: a session in the registry is there after every step, under the same
\* token and with the same stok, key and IV.
C9_SessionsNeverEvicted ==
    [][\A token \in DOMAIN sessions :
          /\ token \in DOMAIN sessions'
          /\ sessions'[token] = sessions[token]]_vars

\* the first session is still there after the second login
C9_Witness ==
    /\ SysauthOfLogin(1) \in DOMAIN sessions
    /\ SysauthOfLogin(2) \in DOMAIN sessions
    /\ sessions[SysauthOfLogin(1)].stok = StokOfLogin(1)

\* C10: no two sessions of the registry have the same stok.
C10_StokUnique ==
    \A t1 \in DOMAIN sessions : \A t2 \in DOMAIN sessions :
        t1 # t2 => sessions[t1].stok # sessions[t2].stok

\* two sessions of one client (same key and IV) are live
C10_Witness ==
    \E t1 \in DOMAIN sessions : \E t2 \in DOMAIN sessions :
        t1 # t2 /\ sessions[t1].aes = sessions[t2].aes

----------------------------------------------------------------------------
(* BE230: properties *)

\* the sysauth tokens the logins made so far have issued
BeIssuedSysauths == {BeSysauthOfLogin(k) : k \in 1..((be_rng - 1) \div 2)}

BeProbeStoks ==
    {BeInitialStok, BeUnissuedStok, <<"be230-">>, StokOfLogin(1), be_stok}
    \cup {BeStokOfLogin(k) : k \in 1..(MaxLogins + 1)}

BeProbeCookies ==
    {<<>>, <<"sysauth=">>, CookieOf(UnissuedSysauth), CookieOf(TokenHex(16, 1)), CookieOf(be_sysauth)}
    \cup {CookieOf(BeSysauthOfLogin(k)) : k \in 1..(MaxLogins + 1)}

\* no body, and a body that would flip the 2.4 GHz guest switch
BeProbeBodies ==
    {<<>>,
     BeWriteBody("guest_2g", IF be_status[<<"guest_2g", "_enable">>] = <<"on">> THEN "off" ELSE "on")}

BeProbeQueries ==
    {<<>>, <<"x", "form", "=", "all">>}
    \cup {<<"form", "=", f>> : f \in {"keys", "login", "all", "logout", "guest_2g"}}

BeDataHandlers ==
    {"status_all", "status_perf", "firmware", "network_ipv4", "wireless_statistics",
     "smart_network", "reboot", "logout", "wifi_toggle", "write_unnamed", "vpn", "vpnconn"}

\* C2: a request is answered by a data or command handler only if its cookie
\* carries a sysauth token that a login made earlier on the instance issued;
\* without one it is answered 401 or 403.
C2_HandlersNeedBearer ==
    \A cookie \in BeProbeCookies : \A query \in BeProbeQueries : \A endpoint \in BeEndpoints :
        LET req == BeRequest(BePathOf(be_stok, endpoint), query, cookie, <<>>)
        IN SearchSysauth(cookie) \notin BeIssuedSysauths =>
              /\ BeBranch(req) \notin BeDataHandlers
              /\ BeBranch(req) \notin {"keys", "auth", "login", "device_config"} =>
                    BePostAny(BeNow, req, BeInputs).resp.status \in {401, 403}

\* C7: a login request whose body carries no proof, or a malformed one, is
\* answered with an error status and leaves stok, known stoks and sysauth as
\* they are.
C7_BadLoginChangesNothing ==
    \A body \in {<<>>, <<"operation", "=", "login">>, <<"password", "=">>,
                 <<"operation", "=", "login", "&", "password", "=", "zz">>} :
        \A cookie \in BeProbeCookies :
            LET out == BePostAny(BeNow,
                           BeRequest(BeLoginPath, <<"form", "=", "login">>, cookie, body),
                           BeInputs)
            IN /\ out.resp.status >= 400
               /\ out.state = BeNow

\* C8: with any non-empty state token in the path (the initial one, one a
\* login issued, one a later login will issue, one never issued) a request is
\* answered exactly as with the current stok, by the handler of its endpoint;
\* with an empty state token every path but the login and device_config paths
\* is answered 404 'unsupported' and changes nothing.
C8_AnyStokAccepted ==
    \A endpoint \in BeEndpoints : \A query \in BeProbeQueries : \A body \in BeProbeBodies :
        /\ \A stok \in BeProbeStoks :
              LET req == BeRequest(BePathOf(stok, endpoint), query, <<>>, body)
              IN /\ ExtractEndpoint(req.path) = endpoint
                 /\ endpoint # <<>> => BeBranch(req) = BeCommandOf(endpoint, query, body)
                 /\ BePostAny(BeNow, req, BeInputs)
                        = BePostAny(BeNow, [req EXCEPT !.path = BePathOf(be_stok, endpoint)],
                                    BeInputs)
        /\ LET req == BeRequest(BePathOf(<<>>, endpoint), query, <<>>, body)
               out == BePostAny(BeNow, req, BeInputs)
           IN req.path \notin {BeLoginPath, BeDeviceConfigPath} =>
                 /\ out.resp.status = 404
                 /\ out.resp.by = "unsupported"
                 /\ out.state = BeNow

\* a login has rotated the stok, a switch has been written, and a token never
\* issued reaches the status handler
C8_Witness ==
    /\ Cardinality(be_known_stoks) = 2
    /\ be_status # BeStatusBaseline
    /\ BeBranch(BeRequest(BePathOf(BeUnissuedStok, <<"admin", "/", "status">>),
                          <<"form", "=", "all">>, <<>>, <<>>)) = "status_all"

----------------------------------------------------------------------------
(* Deco: invalid logins *)

\* C6: every login body that is not a valid login (sign or data missing, a
\* sign without k and i, data that does not decrypt or parse, a payload whose
\* operation is not login) is answered 400 with an error_code among -1..-4
\* and leaves the session registry as it was.
C6_InvalidLoginIsTyped ==
    \A body \in LoginBodies \ AllValidLoginBodies :
        LET out == DecoPostAny(DecoNow,
                       Request(LoginPath, "login", <<>>, body[1], body[2]), PlainInputs)
        IN /\ out.resp.status = 400
           /\ out.resp.error_code \in -4..-1
           /\ out.state.sessions = sessions

----------------------------------------------------------------------------
(* Omada: tokens *)

\* the client requests a sender makes with the Csrf-Token token
OmTokenRequests(token) ==
    {OmRequest("list_clients", OmControllerId, OmSiteId, <<>>, token, NoBody, "", 1, 100),
     OmRequest("get_client", OmControllerId, OmSiteId, <<"AA", "-", "0B", "-", "01">>, token, NoBody, "", 1, 100),
     OmRequest("patch_client", OmControllerId, OmSiteId, <<"AA", "-", "0B", "-", "01">>, token,
               OmObject([name |-> "\"A\""]), "", 1, 100)}

\* C5: a request that presents a token issued by a login with one character
\* replaced is rejected (401 or 403) and changes nothing.
C5_AlteredTokenRejected ==
    \A token \in om_tokens : \A altered \in Replaced(token) :
        \A req \in OmTokenRequests(altered), in \in OmInputs :
            LET out == OmHandle(OmNow, req, in)
            IN out.resp.status \in {401, 403} /\ out.state = OmNow

----------------------------------------------------------------------------
(* Omada: which handlers change the store *)

\* the requests of the handlers that are not the switch-port write and the
\* gateway-port action
OmOtherRequests ==
    OmListRequests \cup OmGetRequests \cup OmPatchRequests
    \cup UNION {OmRequestsOf[route] :
                  route \in {"list_known_clients", "list_devices", "get_firmware",
                             "get_gateway", "get_eap", "get_switch", "patch_gateway",
                             "patch_eap", "patch_switch", "get_switch_ports",
                             "get_switch_port", "client_command", "device_command"}}

\* C11: a request to any handler other than the switch-port write and the
\* gateway-port action (reads, client/gateway/AP/switch patches, client and
\* device commands) leaves every record of the store as it was.
C11_OtherHandlersChangeNothing ==
    \A req \in OmOtherRequests : \A in \in OmInputs :
        OmRecords(OmHandle(OmNow, req, in).state) = OmRecords(OmNow)

\* C13: a patch of a client, a gateway, an AP or a switch whose payload
\* carries the key mac answers with a record whose mac is the one the record
\* had before the patch.
C13_PatchKeepsAddress ==
    /\ \A req \in OmPatchRequests : \A in \in OmInputs :
          LET out == OmHandle(OmNow, req, in)
              before == EnsureClient(OmNow, req.mac, in.elapsed)
          IN out.resp.status = 200 =>
                out.resp.items[1].fields.mac
                    = before.clients[EnsuredIndex(OmNow, req.mac)].fields.mac
    /\ \A req \in OmRequestsOf["patch_gateway"] : \A in \in OmPlainInputs :
          LET out == OmHandle(OmNow, req, in)
              before == GetGatewayDetail(OmNow, req.mac)
          IN out.resp.status = 200 =>
                out.resp.items[1].mac = before.gateway_details[NormalizeMac(req.mac)].mac

----------------------------------------------------------------------------
(* Omada: lazy creation *)

\* mac with its letters in upper or lower case and sep between its groups
Respelled(mac, upper, sep) ==
    [j \in 1..Len(mac) |->
        IF mac[j] \in {"-", ":"} THEN sep
        ELSE IF upper THEN UpperFrag(mac[j]) ELSE LowerFrag(mac[j])]

\* spellings of one address: either case, mixed case, either separator
Spellings(mac) ==
    {Respelled(mac, upper, sep) : upper \in BOOLEAN, sep \in {"-", ":"}}
    \cup {[j \in 1..Len(mac) |-> IF mac[j] \in {"AA", "aa"} THEN "Aa" ELSE mac[j]]}

\* addresses lookups are probed with
ProbeAddresses ==
    {OmGatewayMac, OmSwitchMac, OmApMac, OmUnknownMac}
    \cup {<<"AA", "-", "0B", "-", last>> : last \in {"01", "02", "07"}}

OmDeviceTypes == {"gateway", "switch", "ap"}

\* the addresses no client, and those no device, of the store has
UnknownToClients ==
    {mac \in ProbeAddresses : IndexOfMac(om_clients, NormalizeMac(mac)) = 0}

UnknownToDevices ==
    {mac \in ProbeAddresses : FindDeviceIndex(om_devices, NormalizeMac(mac)) = 0}

\* C14: _ensure_client for an address no client has appends one client (and
\* at most one known client); a second call for any spelling of that address
\* returns the appended record and leaves the store as the first call left
\* it.  The same holds for _ensure_device_of_type, and for the lookups
\* get_client and get_gateway that call them: the store grows by one record.
C14_EnsureCreatesOnce ==
    /\ \A mac \in UnknownToClients : \A first \in Spellings(mac), second \in Spellings(mac) :
          \A now \in OmTimes :
              LET once == EnsureClient(OmNow, first, now)
                  twice == EnsureClient(once, second, now + 500)
              IN /\ Len(once.clients) = Len(om_clients) + 1
                 /\ Len(once.known_clients) \in {Len(om_known_clients),
                                                 Len(om_known_clients) + 1}
                 /\ twice = once
                 /\ EnsuredIndex(once, second) = EnsuredIndex(OmNow, first)
    /\ \A mac \in UnknownToDevices : \A first \in Spellings(mac), second \in Spellings(mac) :
          \A dev_type \in OmDeviceTypes :
              LET once == EnsureDeviceOfType(om_devices, first, dev_type)
                  twice == EnsureDeviceOfType(once, second, dev_type)
              IN /\ Len(once) = Len(om_devices) + 1
                 /\ twice = once
                 /\ EnsuredDeviceIndex(once, second) = EnsuredDeviceIndex(om_devices, first)
                 /\ \A other \in OmDeviceTypes :
                       Len(EnsureDeviceOfType(once, second, other)) = Len(once)
    /\ \A mac \in UnknownToClients \cap UnknownToDevices :
          \A first \in Spellings(mac), second \in Spellings(mac) :
              \A route \in {"get_client", "get_gateway"} : \A in \in OmPlainInputs :
                  LET once == OmHandle(OmNow,
                                  OmDeviceRequest(route, <<OmControllerId, OmSiteId>>,
                                                  first, 1, "", NoBody), in)
                      twice == OmHandle(once.state,
                                   OmDeviceRequest(route, <<OmControllerId, OmSiteId>>,
                                                   second, 1, "", NoBody), in)
                  IN /\ twice.state = once.state
                     /\ twice.resp.status = 200
                     /\ twice.resp.items = once.resp.items

\* a request has created a client for an address the fixture did not hold,
\* and addresses unknown to the clients and to the devices remain
C14_Witness ==
    /\ Len(om_clients) = Len(OmClientsBaseline) + 1
    /\ Len(om_known_clients) = Len(OmKnownClientsBaseline) + 1
    /\ UnknownToClients \cap UnknownToDevices # {}

----------------------------------------------------------------------------
(* Omada: records stay *)

\* the addresses the clients and the devices of a state have
ClientAddresses(clients) == {NormalizeMac(clients[j].fields.mac) : j \in 1..Len(clients)}

DeviceAddresses(devices) == {NormalizeMac(devices[j].mac) : j \in 1..Len(devices)}

----------------------------------------------------------------------------
(* replaying a write *)

\* the Omada requests that write a switch port or act on a gateway port
OmMutationRequests ==
    OmRequestsOf["patch_switch_port"] \cup OmRequestsOf["openapi_switch_patch"]
    \cup OmRequestsOf["gateway_command"]

\* a Deco instance after construction and the login of the client of aes
DecoAfterLogin(aes) ==
    DecoPostAny(DecoState(EmptyRegistry, WirelessBaseline,
                          [mac \in DecoMacs |->
                              BuildClientRuntime(DecoCatalog[CatalogEntry(mac)],
                                  ClientDraw(0, RateDraw(0, 100), RateDraw(0, 100)))]),
                Request(LoginPath, "login", <<>>, GoodSign(aes), ClientData(aes, DocLogin)),
                Inputs(1, 2, NoDraws, 10, 100, 100)).state

\* the wireless requests of the holder of the first session, whose key is aes
DecoWlanRequests(aes) ==
    {Request(PathOf(StokOfLogin(1), <<"admin/wireless">>), "wlan",
             CookieOf(SysauthOfLogin(1)), NoSign, data) :
        data \in MalformedData \cup {EmptyData, NoData}
                 \cup {ClientData(aes, doc) : doc \in WlanDocs}}

DecoWlan1(S, req) == DecoPostAny(S, req, Inputs(3, 4, NoDraws, 10, 100, 100))

\* the Deco states a login and at most one wireless request lead to
DecoWrittenStates(aes) ==
    {DecoAfterLogin(aes)}
    \cup {DecoWlan1(DecoAfterLogin(aes), req).state : req \in DecoWlanRequests(aes)}

\* a Deco wireless request applied twice gives the state and the response
\* it gives applied once
DecoWriteIdempotent ==
    \A aes \in ClientKeys : \A S \in DecoWrittenStates(aes) : \A req \in DecoWlanRequests(aes) :
        LET once == DecoWlan1(S, req)
            twice == DecoWlan1(once.state, req)
        IN twice = once

BeConstructed == BeState(BeInitialStok, {BeInitialStok}, TokenHex(16, 1), BeStatusBaseline)

BeWrite1(S, req) == BePostAny(S, req, Inputs(2, 3, <<>>, 0, 100, 100))

\* the BE230 states at most one write request leads to
BeWrittenStates == {BeConstructed} \cup {BeWrite1(BeConstructed, req).state : req \in BeWriteRequests}

\* a BE230 write request applied twice gives what it gives applied once
BeWriteIdempotent ==
    \A S \in BeWrittenStates : \A req \in BeWriteRequests :
        LET once == BeWrite1(S, req)
            twice == BeWrite1(once.state, req)
        IN twice = once

\* C12: replaying a write changes nothing more.  In every reachable state of
\* the controller, a switch-port patch or a gateway-port action applied a
\* second time leaves the store as the first application left it and answers
\* as the first did; the patch {"poe": false} on port 1, which has no poe
\* field in the fixture, answers both times with a record whose poe is false.
\* The same holds of a Deco wireless write and of a BE230 wifi toggle in
\* every state a login and one earlier write lead to.
C12_WritesAreIdempotent ==
    /\ \A req \in OmMutationRequests : \A in \in OmPlainInputs :
          LET once == OmHandle(OmNow, req, in)
              twice == OmHandle(once.state, req, in)
          IN twice = once
    /\ \A in \in OmPlainInputs :
          LET req == OmDeviceRequest("patch_switch_port", <<OmControllerId, OmSiteId>>,
                                     OmSwitchMac, 1, "", OmObject([poe |-> "false"]))
              once == OmHandle(OmNow, req, in)
              twice == OmHandle(once.state, req, in)
          IN /\ once.resp.status = 200
             /\ once.resp.items[1].poe = "false"
             /\ twice.resp.items = once.resp.items
             /\ twice.state.switch_ports = once.state.switch_ports
    /\ DecoWriteIdempotent
    /\ BeWriteIdempotent

\* port 1 of the switch has been patched with poe false, its first poe value,
\* and a Deco write and a BE230 toggle that change their stores exist
C12_Witness ==
    /\ "poe" \notin DOMAIN OmSwitchPortsBaseline[NormalizeMac(OmSwitchMac)][1]
    /\ "poe" \in DOMAIN om_switch_ports[NormalizeMac(OmSwitchMac)][1]
    /\ om_switch_ports[NormalizeMac(OmSwitchMac)][1].poe = "false"
    /\ \E aes \in ClientKeys : \E S \in DecoWrittenStates(aes) :
          S.wireless # WirelessBaseline
    /\ \E S \in BeWrittenStates : S.status # BeStatusBaseline

----------------------------------------------------------------------------
(* Omada: spellings of an address *)

\* the lookups by address: route and port
OmLookups ==
    {<<route, 1>> : route \in {"get_client", "get_gateway", "get_eap", "get_switch",
                               "get_switch_ports"}}
    \cup {<<"get_switch_port", port>> : port \in OmPortIds}

\* a device of each type, a client, and an address the fixture does not hold
LookupAddresses ==
    {OmGatewayMac, OmSwitchMac, OmApMac, OmUnknownMac, <<"AA", "-", "0B", "-", "01">>}

OmLookup(S, lookup, mac, in) ==
    OmHandle(S, OmDeviceRequest(lookup[1], <<OmControllerId, OmSiteId>>, mac, lookup[2],
                                "", NoBody), in)

\* C16: two spellings of an address that differ in letter case and in the
\* separator look up the same record.  _find_device and _get_switch_port
\* return for one what they return for the other; and for every lookup
\* handler (client, gateway, AP and switch detail, switch port list, switch
\* port) a request with one spelling followed by a request with the other
\* is answered twice with the same record, the second request leaving the
\* store as the first left it (so where the store held the address, either
\* spelling alone is answered with that record).
C16_SpellingsFindSameRecord ==
    \A mac \in LookupAddresses : \A first \in Spellings(mac), second \in Spellings(mac) :
        /\ FindDevice(om_devices, first) = FindDevice(om_devices, second)
        /\ IndexOfMac(om_clients, NormalizeMac(first))
              = IndexOfMac(om_clients, NormalizeMac(second))
        /\ \A port \in OmPortIds :
              SwitchPortIndex(om_switch_ports, first, port)
                  = SwitchPortIndex(om_switch_ports, second, port)
        /\ \A lookup \in OmLookups : \A in \in OmPlainInputs :
              LET one == OmLookup(OmNow, lookup, first, in)
                  other == OmLookup(one.state, lookup, second, in)
              IN other = one

\* the store holds the fixture's records, which lookups find, and a record a
\* lookup created for an address of another spelling than the fixture's
C16_Witness ==
    /\ SwitchPortIndex(om_switch_ports, <<"aa", ":", "0b", ":", "20">>, 2) = 2
    /\ FindDevice(om_devices, <<"Aa", ":", "0B", ":", "10">>) # NoFields
    /\ \/ FindDevice(om_devices, OmUnknownMac) # NoFields
       \/ IndexOfMac(om_clients, NormalizeMac(OmUnknownMac)) # 0

----------------------------------------------------------------------------
(* the flap function *)

\* flap descriptors: period_seconds, on_ratio as num/den, offset_seconds
FlapDescriptors ==
    {Flap(period, ratio[1], ratio[2], offset) :
        period \in 1..4, ratio \in {<<0, 1>>, <<1, 4>>, <<1, 2>>, <<1, 1>>, <<3, 2>>},
        offset \in {0, 1, 3}}

FlapTimes == 0..9

\* a client with the flap descriptor flap and the static flag active
FlappingClient(flap, active) == OmRecord([active |-> BoolJson(active)], flap)

\* the descriptors of the clients of the store
StoredDescriptors == {om_clients[j].flap : j \in 1..Len(om_clients)} \ {NoFlap}

\* C17: for every flap descriptor d and every time t, the presence computed
\* at t is the presence computed at t + d.period_seconds, by the controller's
\* _is_client_active and by the router's _is_online.
C17_FlapIsPeriodic ==
    \A d \in FlapDescriptors \cup StoredDescriptors : \A t \in FlapTimes :
        /\ IsClientActive(FlappingClient(d, TRUE), t)
              = IsClientActive(FlappingClient(d, TRUE), t + d.period_seconds)
        /\ BeIsOnline(d, t) = BeIsOnline(d, t + d.period_seconds)

\* C18: a client with a flap descriptor (period, on_ratio, offset) is
\* reported active at t exactly when its static flag is set and
\* ((t + offset) mod period) / period < on_ratio, for every value of the
\* descriptor's fields; a client with no descriptor reports its static flag.
C18_ActiveIsStaticAndPhase ==
    /\ \A d \in FlapDescriptors \cup StoredDescriptors : \A t \in FlapTimes :
          \A active \in BOOLEAN :
              IsClientActive(FlappingClient(d, active), t)
                  = (/\ active
                     /\ ((t + d.offset_seconds) % d.period_seconds) * d.den
                           < d.num * d.period_seconds)
    /\ \A t \in FlapTimes : \A active \in BOOLEAN :
          IsClientActive(FlappingClient(NoFlap, active), t) = active
    /\ \A j \in 1..Len(om_clients) : \A t \in FlapTimes :
          om_clients[j].flap = NoFlap =>
              IsClientActive(om_clients[j], t) = Truthy(FieldOf(om_clients[j], "active"))

----------------------------------------------------------------------------
(* reads within one second *)

\* clock readings in milliseconds; some fall in the same second
ReadTimes == {1000, 1250, 1500, 1999, 2000, 2500, 3000}

SameSecond(t1, t2) == t1 \div 1000 = t2 \div 1000

\* address and active flag of the records of a client list
Presence(items) ==
    [j \in 1..Len(items) |-> <<items[j].fields.mac, FieldOf(items[j], "active")>>]

OmReadAt(S, req, now) == OmHandle(S, req, Inputs(om_rng + 1, om_rng + 2, <<>>, now, 100, 100))

\* C19: two reads of the client list whose clocks fall in the same second,
\* with nothing written between them, report the same clients with the same
\* active flags, whichever comes first: a read leaves the store as it was,
\* so the second read answers as it would have answered alone.  The same
\* holds of the router's smart-network list.
C19_ReadsInOneSecondAgree ==
    /\ \A req \in OmListRequests : \A t1 \in ReadTimes, t2 \in ReadTimes :
          SameSecond(t1, t2) =>
              LET first == OmReadAt(OmNow, req, t1)
                  second == OmReadAt(first.state, req, t2)
              IN /\ first.state = OmNow
                 /\ second = OmReadAt(OmNow, req, t2)
                 /\ second.resp.status = first.resp.status
                 /\ Presence(second.resp.items) = Presence(first.resp.items)
    /\ \A t1 \in ReadTimes, t2 \in ReadTimes :
          SameSecond(t1, t2) =>
              BeRuntimeSmartNetwork(BeSmartNetworkBaseline, t1)
                  = BeRuntimeSmartNetwork(BeSmartNetworkBaseline, t2)

\* a client of the store flaps: a read in one second reports it active and a
\* read in a later second reports it inactive, and so does the router
C19_Witness ==
    /\ \E j \in 1..Len(om_clients) :
          /\ om_clients[j].flap # NoFlap
          /\ RuntimeClient(om_clients[j], 1000).fields.active = "true"
          /\ RuntimeClient(om_clients[j], 1500).fields.active = "true"
          /\ RuntimeClient(om_clients[j], 2000).fields.active = "false"
    /\ BeRuntimeSmartNetwork(BeSmartNetworkBaseline, 1000)
          # BeRuntimeSmartNetwork(BeSmartNetworkBaseline, 2000)
    /\ om_writes = 1

----------------------------------------------------------------------------
(* Deco: malformed encrypted bodies *)

\* data that is no base64, of a wrong length, wrongly padded, no UTF-8, or
\* that decrypts under aes to a text that is no JSON
MalformedFor(aes) == MalformedData \cup {ClientData(aes, DocNotJson)}

\* C20: a request whose encrypted body is malformed is answered with a 4xx
\* error and changes nothing, on the login path and, for the holder of
\* every session, on every endpoint.
C20_MalformedBodyIs4xx ==
    /\ \A aes \in ClientKeys : \A data \in MalformedFor(aes) :
          LET out == DecoPostAny(DecoNow,
                         Request(LoginPath, "login", <<>>, GoodSign(aes), data), PlainInputs)
          IN /\ out.resp.status \in 400..499
             /\ out.state = DecoNow
    /\ \A token \in DOMAIN sessions : \A c \in DecoCommands :
          \A data \in MalformedFor(sessions[token].aes) :
              LET out == DecoPostAny(DecoNow,
                             Request(PathOf(sessions[token].stok, <<c[1]>>), c[2],
                                     CookieOf(token), NoSign, data), PlainInputs)
              IN /\ out.resp.status \in 400..499
                 /\ out.state = DecoNow

----------------------------------------------------------------------------
(* requests the command tables do not match *)

\* the selector of a BE230 request: the first form= value of its query
BeSelectorOf(req) == FirstOf(ParseQsGet(req.query, <<"form">>, FALSE))

\* C21: a request whose (endpoint, selector) pair no entry of the command
\* table matches is answered 404 with an "unsupported endpoint" error whose
\* message holds the endpoint and the selector, and changes no state: for a
\* Deco session holder, and for every BE230 request with an endpoint.
C21_UnsupportedEchoesRequest ==
    /\ \A aes \in ClientKeys : \A c \in DecoCommands :
          CommandOf(<<c[1]>>, c[2]) = "unsupported" =>
              LET S == DecoAfterLogin(aes)
                  out == DecoPostAny(S, Request(PathOf(StokOfLogin(1), <<c[1]>>), c[2],
                                                CookieOf(SysauthOfLogin(1)), NoSign, NoData),
                                     Inputs(3, 4, NoDraws, 10, 100, 100))
              IN /\ out.resp.status = 404
                 /\ out.resp.msg = "unsupported endpoint"
                 /\ out.resp.detail = <<c[1], "::", c[2]>>
                 /\ out.state = S
    /\ \A req \in BeUnsupportedRequests \cup BeWriteRequests :
          (BeBranch(req) = "unsupported" /\ ExtractEndpoint(req.path) # <<>>) =>
              LET out == BePostAny(BeNow, req, BeInputs)
              IN /\ out.resp.status = 404
                 /\ out.state = BeNow
                 /\ Contains(BeErrorOf(out.resp), ExtractEndpoint(req.path))
                 /\ Contains(BeErrorOf(out.resp), BeSelectorOf(req))

----------------------------------------------------------------------------
(* run.py: the modem lock *)

\* the processes that have returned from _acquire_modem_lock without raising
\* and have not ended
LockHolders == {p \in Processes : lock_pc[p] \in {"serving", "cleanup"}}

\* C22: at most one running process holds the modem lock: of the processes
\* that run _acquire_modem_lock, in any interleaving of their steps, at most
\* one has returned without raising.
C22_OneLockHolder == Cardinality(LockHolders) <= 1

----------------------------------------------------------------------------
(* shared/rsa_session.py: round trips *)

\* the cipher contexts AES.new accepts
CipherContexts == {FromAscii(key, iv) : key \in AesKeys, iv \in AesIvs}

\* plaintexts of n bytes that end in the byte last
Plaintext(n, last) == [i \in 1..n |-> IF i = n THEN last ELSE "a"]

PlaintextLengths == {0, 1, 15, 16, 17, 31, 32, 33}

Plaintexts ==
    {Plaintext(n, last) :
        n \in PlaintextLengths, last \in {"a", "}", CtlFrag(0), CtlFrag(1), CtlFrag(16)}}
    \cup {DocLogin, DocRead, DocNotJson}

\* C23: for every cipher context (that of every session included) and every
\* plaintext, the empty one and those of one or two whole blocks included,
\* decrypt_b64(encrypt_b64(plaintext)) returns the plaintext; encrypt_b64
\* pads with 1 to 16 bytes up to a whole number of blocks.
C23_AesRoundTrip ==
    \A aes \in CipherContexts \cup {sessions[token].aes : token \in DOMAIN sessions} :
        \A plaintext \in Plaintexts :
            LET encrypted == EncryptB64(aes, plaintext)
            IN /\ DecryptB64(aes, encrypted) = Returned(plaintext)
               /\ Len(encrypted.pt) - Len(plaintext) \in 1..AesBlockSize
               /\ Len(encrypted.pt) % AesBlockSize = 0
               /\ SubSeq(encrypted.pt, 1, Len(plaintext)) = plaintext

\* a session holds a cipher context, and a plaintext of one whole block is
\* padded with a whole block
C23_Witness ==
    /\ \E token \in DOMAIN sessions : sessions[token].aes \in CipherContexts
    /\ \E plaintext \in Plaintexts :
          /\ Len(plaintext) = AesBlockSize
          /\ Len(EncryptB64(FromAscii(<<"K1">>, <<"V1">>), plaintext).pt) = 2 * AesBlockSize

\* the texts clients sign; some hold NUL characters, inside and at the end
SignTexts ==
    {<<"k", "=">> \o aes.key \o <<"&", "i", "=">> \o aes.iv : aes \in CipherContexts}
    \cup {<<"k", "=", "K1", "&", "i", "=", "V1", NulFrag, NulFrag>>,
          <<"k", "=", NulFrag, "K1", "&", "i", NulFrag, "=", "V1", NulFrag>>,
          <<NulFrag, NulFrag, NulFrag>>, <<"k">>, <<>>}

\* the numbers of fragments a block takes
PieceLengths == 1..4

\* C24: for every text (the key texts of the sessions included) and every
\* block length, decrypt_sign_chunks of the
\* blocks the client made of the text returns the text without its trailing
\* NUL characters: the pieces come back whole and in order.
C24_SignRoundTrip ==
    \A text \in SignTexts \cup {<<"k", "=">> \o sessions[token].aes.key
                                  \o <<"&", "i", "=">> \o sessions[token].aes.iv :
                                     token \in DOMAIN sessions} :
      \A piece \in PieceLengths :
        /\ DecryptSignChunks(SignOf(EncryptSignChunks(text, piece))) = Returned(RStripNul(text))
        /\ Len(EncryptSignChunks(text, piece)) = (Len(text) + piece - 1) \div piece

\* sessions exist whose logins were signed, and a text of several blocks
\* with NUL characters at the end of a block and of the text comes back
\* shorter than it was sent
C24_Witness ==
    /\ Cardinality(DOMAIN sessions) = MaxLogins
    /\ \E text \in SignTexts : \E piece \in PieceLengths :
          /\ Len(EncryptSignChunks(text, piece)) >= 2
          /\ \E j \in 1..(Len(EncryptSignChunks(text, piece)) - 1) :
                EncryptSignChunks(text, piece)[j].text[
                    Len(EncryptSignChunks(text, piece)[j].text)] = NulFrag
          /\ DecryptSignChunks(SignOf(EncryptSignChunks(text, piece))).text # text

----------------------------------------------------------------------------
(* Omada: ensure on an address the store holds *)

\* C25: ensure on an address the store holds returns the record and leaves
\* the store as it was, whatever the type hint: _ensure_client for a client's
\* address, _ensure_device_of_type for a device's address with each type, and
\* a gateway, switch or AP detail request for the address of a device leave
\* the device records unchanged.
C25_EnsureKeepsExisting ==
    /\ \A mac \in ProbeAddresses : \A now \in OmTimes :
          IndexOfMac(om_clients, NormalizeMac(mac)) # 0 =>
              EnsureClient(OmNow, mac, now) = OmNow
    /\ \A mac \in ProbeAddresses : \A dev_type \in OmDeviceTypes :
          FindDeviceIndex(om_devices, NormalizeMac(mac)) # 0 =>
              EnsureDeviceOfType(om_devices, mac, dev_type) = om_devices
    /\ \A mac \in ProbeAddresses : \A route \in {"get_gateway", "get_switch", "get_eap"} :
          FindDeviceIndex(om_devices, NormalizeMac(mac)) # 0 =>
              \A in \in OmPlainInputs :
                  OmLookup(OmNow, <<route, 1>>, mac, in).state.devices = om_devices

----------------------------------------------------------------------------
(* Deco: the runtime of the clients *)

\* draws of one read: the online draw at and around the thresholds of the
\* profiles, the rate draws at the ends of their ranges
ProbeDraws ==
    {[mac \in DecoMacs |-> ClientDraw(u, RateDraw(p, h), RateDraw(1000 - p, h))] :
        u \in {0, 3, 4, 239, 240, 999}, p \in {0, 1000}, h \in {72, 100, 133}}

\* now - self._last_client_tick in tenths of a second: reads that follow each
\* other at once, and a read after a long idle time
ProbeElapsed == {0, 2, 3, 10, 40, 41, 36000}

\* C26: the traffic counters of a client never decrease.  No step lowers
\* traffic_down or traffic_up of a client, and a client-list read, whatever
\* it draws and whatever time has passed, leaves them at or above their
\* values, and at their values for a client the read finds offline.
C26_CountersNeverDecrease ==
    [][decoVars' # decoVars =>
       /\ \A mac \in DecoMacs :
             /\ client_runtime'[mac].traffic_down >= client_runtime[mac].traffic_down
             /\ client_runtime'[mac].traffic_up >= client_runtime[mac].traffic_up
             /\ (decoReads' # decoReads /\ ~client_runtime'[mac].online) =>
                    /\ client_runtime'[mac].traffic_down = client_runtime[mac].traffic_down
                    /\ client_runtime'[mac].traffic_up = client_runtime[mac].traffic_up
       /\ \A draws \in ProbeDraws : \A elapsed \in ProbeElapsed :
             \A rt \in {ClientListRuntime(client_runtime, draws, elapsed)} :
                 \A mac \in DecoMacs :
                     /\ rt[mac].traffic_down >= client_runtime[mac].traffic_down
                     /\ rt[mac].traffic_up >= client_runtime[mac].traffic_up
                     /\ ~rt[mac].online =>
                            /\ rt[mac].traffic_down = client_runtime[mac].traffic_down
                            /\ rt[mac].traffic_up = client_runtime[mac].traffic_up
      ]_vars

\* after two reads one client is offline with its counters where the first
\* read left them, and another has counted traffic
C26_Witness ==
    /\ decoReads = MaxReads
    /\ \E mac \in DecoMacs : ~client_runtime[mac].online
    /\ \E mac \in DecoMacs : client_runtime[mac].traffic_down > 250000000

\* C27: the elapsed time of a read is clamped to 0.3 .. 4.0 seconds: whatever
\* time has passed since the last read, and whatever the read draws, it adds
\* to each counter of a client its rate x 1000 x the clamped time, which is
\* at least rate x 300 and at most rate x 4000.
C27_ElapsedIsClamped ==
    \A elapsed \in ProbeElapsed :
        /\ DeltaSeconds(elapsed) \in 3..40
        /\ elapsed \in 3..40 => DeltaSeconds(elapsed) = elapsed
        /\ \A draws \in ProbeDraws :
              \A rt \in {ClientListRuntime(client_runtime, draws, elapsed)} :
                  \A mac \in DecoMacs :
                      /\ rt[mac].traffic_down - client_runtime[mac].traffic_down
                            = rt[mac].down_kb * 100 * DeltaSeconds(elapsed)
                      /\ rt[mac].traffic_down - client_runtime[mac].traffic_down
                            \in (rt[mac].down_kb * 300)..(rt[mac].down_kb * 4000)
                      /\ rt[mac].traffic_up - client_runtime[mac].traffic_up
                            \in (rt[mac].up_kb * 300)..(rt[mac].up_kb * 4000)

\* a read has happened, a client is online with a rate, and the elapsed
\* times tried fall below, inside and above the window
C27_Witness ==
    /\ decoReads >= 1
    /\ \E mac \in DecoMacs : client_runtime[mac].online /\ client_runtime[mac].down_kb > 0
    /\ \E below \in ProbeElapsed, above \in ProbeElapsed :
          below < 3 /\ above > 40 /\ DeltaSeconds(below) = 3 /\ DeltaSeconds(above) = 40

\* rates a fixture may seed a client with, inside and outside every profile's
\* bounds; 0 is the rate of a client that is offline
SeededRates == {0, 1, 9000, 9000000}

\* the rates of the entry of a client whose runtime is rt are those its
\* online flag allows
RatesFitProfile(rt) ==
    IF rt.online
    THEN /\ rt.down_kb \in RateBounds(rt.profile).down_min..RateBounds(rt.profile).down_max
         /\ rt.up_kb \in RateBounds(rt.profile).up_min..RateBounds(rt.profile).up_max
    ELSE rt.down_kb = 0 /\ rt.up_kb = 0

\* C28: every entry of a client-list read has down_speed = up_speed = 0 when
\* the client is offline and has both rates inside the bounds of the
\* client's profile when it is online: for every read of every reachable
\* state, whatever it draws, and whatever rates the client had before it (a
\* seeded rate outside the bounds, or 0 after a time offline).
C28_RatesFitOnlineFlag ==
    /\ decoReads > 0 => \A mac \in DecoMacs : RatesFitProfile(client_runtime[mac])
    /\ \A draws \in ProbeDraws : \A mac \in DecoMacs :
          /\ RatesFitProfile(TickClient(client_runtime[mac], draws[mac], 10))
          /\ \A down \in SeededRates, up \in SeededRates : \A online \in BOOLEAN :
                RatesFitProfile(
                    TickClient([client_runtime[mac] EXCEPT !.down_kb = down, !.up_kb = up,
                                                           !.online = online],
                               draws[mac], 10))

\* the client the fixture lists as offline has come back online in a read
\* and carries rates
C28_Witness ==
    /\ decoReads > 0
    /\ \E j \in 1..Len(DecoCatalog) :
          /\ ~DecoCatalog[j].online
          /\ client_runtime[DecoCatalog[j].mac].online
          /\ client_runtime[DecoCatalog[j].mac].down_kb > 0

\* -------------------------------------------------------------------------
\* jitter of a rate that is zero or absent
\* -------------------------------------------------------------------------

\* the four rates of a smart_network entry that is not wired: the range its
\* cap is drawn from, the spread of its jitter in hundredths and its floor
BeRateKinds ==
    {[key |-> "downloadSpeed", lo |-> 400000, hi |-> 95000000, spread |-> 42, floor |-> 0],
     [key |-> "uploadSpeed", lo |-> 150000, hi |-> 65000000, spread |-> 42, floor |-> 0],
     [key |-> "txRate", lo |-> 72000, hi |-> 2401000, spread |-> 35, floor |-> 1000],
     [key |-> "rxRate", lo |-> 72000, hi |-> 2401000, spread |-> 35, floor |-> 1000]}

\* a rate the fixture leaves out, and one it gives as zero
ZeroOrAbsent == {<<>>, <<0>>}

\* C29: a rate whose seed is zero or absent comes out of the jitter as a
\* value that is not zero and lies inside the plausible range of the rate:
\* for the BE230 between the jitter of the least cap and the greatest cap,
\* for the Deco rate step between the bounds of the client's profile.
C29_ZeroSeedIsRedrawn ==
    /\ \A kind \in BeRateKinds : \A field \in ZeroOrAbsent :
          \A cap \in {kind.lo, kind.hi} : \A h \in {100 - kind.spread, 100, 100 + kind.spread} :
            /\ BeRandomizedRate(field, cap, h, kind.floor) # 0
            /\ BeRandomizedRate(field, cap, h, kind.floor)
                  \in BeJitter(kind.lo, 100 - kind.spread, kind.floor)..kind.hi
    /\ \A mac \in DecoMacs : \A p \in {0, 500, 1000} :
          \A bounds \in {RateBounds(client_runtime[mac].profile)} :
            /\ NextRate(0, bounds.down_min, bounds.down_max, RateDraw(p, 100))
                  \in bounds.down_min..bounds.down_max
            /\ NextRate(0, bounds.up_min, bounds.up_max, RateDraw(p, 100))
                  \in bounds.up_min..bounds.up_max
            /\ bounds.down_min > 0 /\ bounds.up_min > 0

\* every request the model sends, and the inputs of a request whose draws
\* and clock would move the clients if the handler looked at them
DecoRequests ==
    {KeysRequest, AuthRequest} \cup LoginRequests \cup AllCommandRequests \cup WlanBodyRequests

MovingInputs ==
    {Inputs(rng + 1, rng + 2, [mac \in DecoMacs |-> ClientDraw(u, RateDraw(0, 72), RateDraw(1000, 133))],
            40, 100, 100) : u \in {0, 999}}

\* C30: the runtime of the clients changes only in a client-list read.  A
\* step that changes it is a read, and a read takes every client through
\* exactly one transition of its online flag, from the flag it had, and
\* leaves its profile; every request that is no client-list read, whatever
\* the draws and the clock, leaves the runtime of every client as it is.
C30_RuntimeChangesOnlyInRead ==
    [][decoVars' # decoVars =>
       /\ client_runtime' # client_runtime => decoReads' = decoReads + 1
       /\ decoReads' # decoReads =>
             \E draws \in StepDraws :
                 /\ client_runtime' = ClientListRuntime(client_runtime, draws, 10)
                 /\ \A mac \in DecoMacs :
                       /\ client_runtime'[mac].online
                             = NextOnlineState(client_runtime[mac].profile,
                                               client_runtime[mac].online, draws[mac].u)
                       /\ client_runtime'[mac].profile = client_runtime[mac].profile
       /\ \A req \in DecoRequests : \A in \in MovingInputs :
             DecoBranch(sessions, req) # "client_list" =>
                 DecoPostAny(DecoNow, req, in).state.client_runtime = client_runtime
      ]_vars

\* after a read has moved the clients, a write to the wireless settings has
\* been taken and the runtime is where the read left it
C30_Witness ==
    /\ decoReads > 0
    /\ wireless # WirelessBaseline
    /\ \E mac \in DecoMacs : client_runtime[mac].traffic_down > 250000000

----------------------------------------------------------------------------
(* Omada: lastSeen of a client that is read *)

\* item is what a read at the time now (milliseconds) shows of the stored
\* record: lastSeen is now when the record is active at now, and the stored
\* lastSeen when it is not
ShownOf(item, stored, now) ==
    /\ item.fields.mac = stored.fields.mac
    /\ IF IsClientActive(stored, now \div 1000)
       THEN item.fields.lastSeen = ToString(now) /\ item.fields.active = "true"
       ELSE FieldOf(item, "lastSeen") = FieldOf(stored, "lastSeen")
            /\ item.fields.active = "false"

\* C31: in a client-list and in a single-client response the lastSeen of a
\* client is the time of the request when the client is active at that
\* time and the stored lastSeen otherwise; the read modifies no stored
\* client record (a single-client read of an unknown address appends one).
C31_LastSeenFollowsPresence ==
    /\ \A req \in OmListRequests : \A now \in ReadTimes :
          \A out \in {OmReadAt(OmNow, req, now)} :
              /\ out.state = OmNow
              /\ \A j \in 1..Len(out.resp.items) :
                    ShownOf(out.resp.items[j],
                            om_clients[IndexOfMac(om_clients,
                                NormalizeMac(out.resp.items[j].fields.mac))], now)
    /\ \A req \in OmGetRequests : \A now \in ReadTimes :
          \A out \in {OmReadAt(OmNow, req, now)} :
              /\ SubSeq(out.state.clients, 1, Len(om_clients)) = om_clients
              /\ IndexOfMac(om_clients, NormalizeMac(req.mac)) # 0 => out.state = OmNow
              /\ out.resp.status = 200 =>
                    /\ Len(out.resp.items) = 1
                    /\ ShownOf(out.resp.items[1],
                               out.state.clients[EnsuredIndex(OmNow, req.mac)], now)

\* the store holds a client that flaps: a read shows it with the time of the
\* request in one second and with its stored lastSeen in another, and it
\* holds a client that a single-client read has appended
C31_Witness ==
    /\ \E j \in 1..Len(om_clients) :
          /\ om_clients[j].flap # NoFlap
          /\ RuntimeClient(om_clients[j], 1250).fields.lastSeen = "1250"
          /\ RuntimeClient(om_clients[j], 2500).fields.lastSeen
                = om_clients[j].fields.lastSeen
          /\ om_clients[j].fields.lastSeen # "2500"
    /\ IndexOfMac(om_clients, NormalizeMac(<<"AA", "-", "0B", "-", "07">>)) # 0

----------------------------------------------------------------------------
(* Omada: requests outside the controller and the site of the fixture *)

\* req sent to the controller controller_id and the site site
InScope(req, controller_id, site) ==
    [req EXCEPT !.controller_id = controller_id, !.site = site]

\* the answer _not_found(msg) and nothing else: no record in the response and
\* the state S as it was
IsNotFound(out, S, msg) ==
    /\ out.resp.status = 404
    /\ out.resp.errorCode = -30104
    /\ out.resp.msg = msg
    /\ out.resp.items = <<>>
    /\ out.state = S

\* every request of requests is turned away in S when it is sent to another
\* controller, and when it is sent to another site of the fixture's
ScopeChecked(S, requests) ==
    \A req \in requests : \A in \in OmPlainInputs :
        /\ \A site \in OmSites \cup {""} :
              IsNotFound(OmHandle(S, InScope(req, "other", site), in), S,
                         "controller not found")
        /\ \A site \in {"Default", ""} :
              IsNotFound(OmHandle(S, InScope(req, OmControllerId, site), in), S,
                         "site not found")

\* C32: every route with a site in its path answers a request for another
\* controller with 404 "controller not found", whatever the site, and a
\* request for the fixture's controller and another site with 404 "site not
\* found", both with errorCode -30104, and in both cases leaves every record
\* as it was and returns none.
C32_ScopeIsCheckedFirst ==
    /\ ScopeChecked(OmNow, OmListRequests)
    /\ ScopeChecked(OmNow, OmGetRequests)
    /\ ScopeChecked(OmNow, OmPatchRequests)
    /\ \A route \in DOMAIN OmRequestsOf : ScopeChecked(OmNow, OmRequestsOf[route])

\* the store has been written, and a patch of an address it does not hold
\* is turned away for its controller and for its site while the same patch
\* in the scope of the fixture would add a client
C32_Witness ==
    /\ om_writes = 1
    /\ \E req \in OmPatchRequests : \E in \in OmPlainInputs :
          /\ OmHandle(OmNow, InScope(req, "other", "Default"), in).resp.msg
                = "controller not found"
          /\ OmHandle(OmNow, InScope(req, OmControllerId, "Default"), in).resp.msg
                = "site not found"
          /\ Len(OmHandle(OmNow, InScope(req, OmControllerId, OmSiteId), in).state.clients)
                > Len(om_clients)

----------------------------------------------------------------------------
(* Omada: actions on a gateway port *)

\* the store with a gateway whose port lists hold a number twice, as a
\* patch of the gateway can leave them
TwicePortsState(S) ==
    [S EXCEPT !.gateway_details =
        NormalizeMac(OmGatewayMac) :>
            [mac |-> OmGatewayMac, type |-> "\"gateway\"", name |-> "\"gw\"",
             portStats |-> <<OmWanPort, OmWanLanPort,
                             [port |-> "2", mode |-> "0", internetState |-> "1"]>>,
             portConfigs |-> <<[port |-> "2", portStat |-> OmWanLanPort],
                               [port |-> "1", portStat |-> OmWanPort],
                               [port |-> "2", portStat |-> OmWanPort]>>]]

\* the fields of a record other than key
Without(record, key) == [name \in DOMAIN record \ {key} |-> record[name]]

\* the request req, answered 200 in the state S, has acted on one port of
\* the gateway and on nothing else
GatewayPortActed(S, req, out) ==
    LET norm == NormalizeMac(req.mac)
        before == S.gateway_details[norm]
        after == out.state.gateway_details[norm]
        port_number == IntOf(Get(req.body.fields, "portId", "1"))
        mode_value == IF IntOf(Get(req.body.fields, "operation", "1")) = 1 THEN "1" ELSE "0"
        k == GatewayPortIndex(before, port_number)
    IN /\ norm \in DOMAIN S.gateway_details
       /\ k # 0
       /\ out.state = [S EXCEPT !.gateway_details[norm] = after]
       /\ Without(Without(after, "portStats"), "portConfigs")
             = Without(Without(before, "portStats"), "portConfigs")
       /\ Len(after.portStats) = Len(before.portStats)
       /\ \A j \in 1..Len(before.portStats) :
             j # k => after.portStats[j] = before.portStats[j]
       /\ req.action = "internetState" =>
             /\ after.portStats[k].internetState = mode_value
             /\ Without(after.portStats[k], "internetState")
                   = Without(before.portStats[k], "internetState")
       /\ Len(after.portConfigs) = Len(before.portConfigs)
       /\ \A j \in 1..Len(before.portConfigs) :
             IF IntOf(Get(before.portConfigs[j], "port", "-1")) = port_number
             THEN /\ after.portConfigs[j].portStat = after.portStats[k]
                  /\ Without(after.portConfigs[j], "portStat")
                        = Without(before.portConfigs[j], "portStat")
             ELSE after.portConfigs[j] = before.portConfigs[j]

----------------------------------------------------------------------------
(* Omada: the patch of a switch port *)

\* the store with the ports of a second switch, whose numbers are those of
\* the ports of the fixture's switch
TwoSwitchesState(S) ==
    [S EXCEPT !.switch_ports =
        (NormalizeMac(OmUnknownMac) :>
            <<[port |-> "1", name |-> "\"Other1\""],
              [port |-> "2", name |-> "\"Other2\"", poe |-> "false"]>>) @@ @]

\* the patch req of the k-th port of a switch of S has changed at most the
\* writable fields that port and the payload share
SwitchPortPatched(S, req, out, k) ==
    LET norm == NormalizeMac(req.mac)
        before == S.switch_ports[norm][k]
        after == out.state.switch_ports[norm][k]
    IN /\ out.state = [S EXCEPT !.switch_ports[norm][k] = after]
       /\ after.port = before.port
       /\ DOMAIN before \subseteq DOMAIN after
       /\ \A key \in DOMAIN after :
             IF key \in WritablePortFields \cap DOMAIN req.body.fields
             THEN after[key] = req.body.fields[key]
             ELSE key \in DOMAIN before /\ after[key] = before[key]

----------------------------------------------------------------------------
(* Omada: commands that end in an error *)

\* C35: a command request that is answered with the error "unsupported
\* action" (errorCode -30107) or with a port-not-found error (errorCode
\* -30106) leaves the store as it was: no device, client, known client or
\* detail is created or modified.
C35_CommandErrorsChangeNothing ==
    \A route \in {"client_command", "device_command", "gateway_command"} :
        \A req \in OmRequestsOf[route] : \A in \in OmPlainInputs :
            \A out \in {OmHandle(OmNow, req, in)} :
                out.resp.errorCode \in {-30107, -30106} => out.state = OmNow

----------------------------------------------------------------------------
(* BE230: the client lists of status(all) and of the wireless statistics *)

\* fixture["clients"]: the smart network of the baseline, and one in which
\* every client flaps; the lists spell the addresses with colons
BeClientFixtures ==
    {[smart_network |-> smart,
      wired |-> <<[macaddr |-> <<"BE", ":", "23", ":", "02">>]>>,
      host |-> <<[macaddr |-> <<"BE", ":", "23", ":", "01">>],
                 [macaddr |-> <<"BE", ":", "23", ":", "09">>]>>,
      guest |-> <<[macaddr |-> <<"BE", ":", "23", ":", "03">>]>>,
      wireless_stats |-> <<[mac |-> <<"BE", ":", "23", ":", "01">>],
                           [mac |-> <<"BE", ":", "23", ":", "03">>]>>] :
        smart \in {BeSmartNetworkBaseline,
                   <<BeSmartNetworkBaseline[1], BeSmartNetworkBaseline[3]>>}}

\* the normalized addresses of the smart-network clients online at now
BeOnlineNow(clients, now) ==
    {BeNormalizeMac(clients.smart_network[j].mac) :
        j \in {i \in 1..Len(clients.smart_network) :
                  BeIsOnline(clients.smart_network[i].flap, now \div 1000)}}

\* C36: in the answers to status(all) and to the wireless statistics each
\* of the wired, wireless-host, wireless-guest and wireless-stats lists holds
\* exactly the entries of the fixture whose normalized address is that of a
\* smart-network client online at the time of the request, and none when
\* every smart-network client is offline.
C36_ListsFollowSmartNetwork ==
    \A req \in BeFormRequests["all"] \cup BeFormRequests["statistics"] :
        BePostAny(BeNow, req, BeInputs).resp.by \in {"status_all", "wireless_statistics"} =>
            \A clients \in BeClientFixtures : \A now \in ReadTimes :
                /\ BeHandleStatusAll(clients, now).access_devices_wired
                      = SelectSeq(clients.wired,
                            LAMBDA e : BeNormalizeMac(e.macaddr) \in BeOnlineNow(clients, now))
                /\ BeHandleStatusAll(clients, now).access_devices_wireless_host
                      = SelectSeq(clients.host,
                            LAMBDA e : BeNormalizeMac(e.macaddr) \in BeOnlineNow(clients, now))
                /\ BeHandleStatusAll(clients, now).access_devices_wireless_guest
                      = SelectSeq(clients.guest,
                            LAMBDA e : BeNormalizeMac(e.macaddr) \in BeOnlineNow(clients, now))
                /\ BeHandleWirelessStatistics(clients, now)
                      = SelectSeq(clients.wireless_stats,
                            LAMBDA e : BeNormalizeMac(e.mac) \in BeOnlineNow(clients, now))

----------------------------------------------------------------------------
(* the schema of the wireless settings *)

\* the keys of fixture["wireless"]: of every band its groups, of every group
\* its keys
WirelessSchema(w) ==
    [band \in DOMAIN w |-> [group \in DOMAIN w[band] |-> w[band][group].keys]]

\* C37: a write to the wireless settings keeps their schema: the keys of the
\* Deco's fixture["wireless"] and the keys of the BE230's fixture["status"]
\* are those of the baseline after every sequence of write requests,
\* whatever their form names and payloads.
C37_WritesKeepSchema ==
    /\ DOMAIN be_status = DOMAIN BeStatusBaseline
    /\ WirelessSchema(wireless) = WirelessSchema(WirelessBaseline)
    /\ \A aes \in ClientKeys : \A S \in DecoWrittenStates(aes) :
          WirelessSchema(S.wireless) = WirelessSchema(WirelessBaseline)

----------------------------------------------------------------------------
(* Omada: one record for an address *)

\* no two records of items have the same normalized address
AddressesDiffer(items, MacOf(_)) ==
    \A i \in 1..Len(items), j \in 1..Len(items) :
        NormalizeMac(MacOf(items[i])) = NormalizeMac(MacOf(items[j])) => i = j

ClientMac(record) == record.fields.mac

DeviceMac(record) == record.mac

OneRecordPerAddress(S) ==
    AddressesDiffer(S.clients, ClientMac) /\ AddressesDiffer(S.devices, DeviceMac)

\* patches of the client at an address of the store whose payload carries
\* the address of another client of the store
OmReaddressRequests ==
    {OmRequest("patch_client", OmControllerId, OmSiteId, om_clients[i].fields.mac, <<>>,
               OmObject([mac |-> om_clients[j].fields.mac]), "", 1, 100) :
        i \in 1..Len(om_clients), j \in 1..Len(om_clients)}

\* C38: the clients of the store have distinct normalized addresses, and so
\* have its devices, in every state that reads, lazy creations, patches and
\* commands lead to from the baseline, and after every further patch of a
\* client and every further request for a device.
C38_OneRecordPerAddress ==
    /\ OneRecordPerAddress(OmNow)
    /\ \A req \in OmPatchRequests \cup OmReaddressRequests : \A in \in OmPlainInputs :
          OneRecordPerAddress(OmHandle(OmNow, req, in).state)
    /\ \A route \in {"get_gateway", "get_eap", "get_switch", "patch_gateway",
                      "gateway_command"} :
          \A req \in OmRequestsOf[route] : \A in \in OmPlainInputs :
              OneRecordPerAddress(OmHandle(OmNow, req, in).state)

----------------------------------------------------------------------------
(* requests in flight at the same time *)

\* the handlers that have returned
ConcDone == {s \in Slots : conc_pc[s] = "done"}

\* the orders in which the handlers that have returned can be put
ConcOrders ==
    {order \in [1..Cardinality(ConcDone) -> ConcDone] :
        \A i, j \in 1..Cardinality(ConcDone) : order[i] = order[j] => i = j}

\* the requests of order run one after the other from the shared state
\* shared: the state they leave and their responses
RECURSIVE ConcSequential(_, _)
ConcSequential(shared, order) ==
    IF order = <<>> THEN [state |-> shared, resps |-> <<>>]
    ELSE LET out == ConcRun(shared, conc_req[Head(order)])
             rest == ConcSequential(out.state, Tail(order))
         IN [state |-> rest.state, resps |-> <<out.resp>> \o rest.resps]

\* C39: requests in flight at the same time are serializable.  Whatever
\* requests have arrived and in whatever order their handlers were suspended
\* and resumed, the shared state and the responses of the handlers that
\* have returned are those of running the same requests one after the
\* other in some order.
C39_Serializable ==
    \E order \in ConcOrders :
        \A run \in {ConcSequential(conc_start, order)} :
            /\ run.state = ConcShared
            /\ \A i \in 1..Len(order) : run.resps[i] = conc_resp[order[i]]

\* two writes to the same switch port were in flight together, both
\* handlers were suspended before either was resumed, and both have
\* returned
C39_Witness ==
    /\ ConcDone = Slots
    /\ \A s \in Slots : conc_seen[s] = conc_start
    /\ \E s, t \in Slots : conc_req[s] = 1 /\ conc_req[t] = 2
    /\ om_switch_ports[NormalizeMac(OmSwitchMac)][2].poe = "false"
    /\ om_switch_ports[NormalizeMac(OmSwitchMac)][2].name = "\"Uplink\""

====
